---------------------------- MODULE Spec2Model ----------------------------
(***************************************************************************)
(* A model of the code generator of graphql-client (znly fork):            *)
(*   - decorate_type          (graphql_client_codegen/src/codegen.rs)      *)
(*   - render_selection       (graphql_client_codegen/src/codegen.rs)      *)
(*   - response_fields_for_selection, render_object_field                  *)
(*                            (graphql_client_codegen/src/shared.rs)       *)
(*   - union_variants, GqlUnion::response_for_selection                    *)
(*                            (graphql_client_codegen/src/unions.rs)       *)
(*   - generate_enum_definitions (the emitted enum and its serde impls)    *)
(*                            (graphql_client_codegen/src/codegen.rs)      *)
(* Token streams are modelled by their structure: a type is the sequence   *)
(* of its wrappers, outermost first, ending with the base identifier, so   *)
(* Option<Vec<Int>> is <<"Option", "Vec", "Int">>.                         *)
(***************************************************************************)
EXTENDS Integers, Sequences, FiniteSets, TLC

VARIABLES
    \* ---- the frame of one decorate_type call
    ident,          \* the base identifier (argument)
    qualifiers,     \* the qualifier chain (argument), outermost first
    pos,            \* number of qualifiers the reversed iterator has left
    qualified,      \* the local `qualified`
    non_null,       \* the local `non_null`
    dpc,            \* "loop" | "done" (returned) | "panic" | "idle"
    \* ---- one run of a selection renderer
    op,             \* which function runs: "render_selection" (codegen.rs),
                    \* "response_fields_for_selection" (shared.rs),
                    \* "response_for_selection" (unions.rs), or "none"
    strategy,       \* options.deprecation_strategy() / context.deprecation_strategy
    target_lang,    \* the `target_lang` argument (shared.rs, unions.rs)
    selection,      \* the selection set the function is called with
    prefix,         \* the `prefix` argument (shared.rs, unions.rs)
    scope,          \* the type the selection is on: `type_name` (shared.rs),
                    \* `self.name` of the GqlUnion (unions.rs)
    required,       \* fragments marked by context.require_fragment
    next_item,      \* how many items of `selection` the loop has consumed
    field_buffer,   \* fields pushed so far (`field_buffer`, or the collected Vec)
    variants_buffer,       \* `variants_buffer` / `variants`
    response_type_buffer,  \* `response_type_buffer` / `children_definitions`
    spc,            \* "loop" | "ok" (returned) | "err" | ... | "idle"
    err,            \* the error returned, "" when none
    \* ---- one enum of the schema, the code generated for it, and its use
    enum_values,    \* `r#enum.variants()`: the values the schema declares
    normalization,  \* options.normalization()
    enum_def,       \* the enum definition generate_enum_definitions emits
    wire,           \* the string handed to the generated deserialize
    value,          \* a value of the generated enum
    serialized,     \* the string the generated serialize writes
    epc,            \* "generate" | "use" | "decoded" | "made" | "done" |
                    \* "rejected" (by the compiler) | "idle"
    \* ---- one call of generate_module_token_stream (lib.rs)
    document,       \* the operations the query document defines, in order
    mode,           \* options.mode: "Cli" | "Derive"
    operation_name, \* options.operation_name, "" for None
    operations,     \* the local `operations`: indices into the document
    is_required,    \* the is_required flag of each definition of the schema
    next_def,       \* definitions the loop of lib.rs:123 has consumed
    next_op,        \* operations the loop of lib.rs:155 has consumed
    modules,        \* the local `modules`
    gpc,            \* "select" | "mark" | "generate" | "ok" | "err" | "idle"
    gerr,           \* the error returned
    \* ---- the two process-wide caches of lib.rs and the threads calling
    \* ---- generate_module_token_stream
    files,          \* the content of each file on disk
    query_cache,    \* QUERY_CACHE: path -> content read and parsed
    schema_cache,   \* SCHEMA_CACHE: path -> content read
    query_lock,     \* the thread holding the mutex of QUERY_CACHE, "" if free
    schema_lock,    \* the thread holding the mutex of SCHEMA_CACHE, "" if free
    tpc,            \* the position of each thread in its call
    query_path,     \* the argument query_path of each thread's call
    schema_path,    \* the argument schema_path of each thread's call
    occupied,       \* the arm of the match on the entry each thread took last
    query_string,   \* the local query_string of each thread
    schema_string,  \* the local schema_string of each thread
    ncalls,         \* calls made so far
    nedits,         \* file changes made so far
    \* ---- the Variables part of one operation
    generator,      \* "expand_variables" (operations.rs) |
                    \* "generate_variables_struct" (codegen.rs) | "none"
    variables,      \* the variable definitions of the operation
    next_var,       \* variables the iterator has yielded so far
    constructors,   \* the default-value constructors emitted so far
    vpc,            \* "loop" | "done" | "panic" | "idle"
    \* ---- one conversion of a parsed definition into an Operation
    definition,     \* the OperationDefinition (argument)
    converted,      \* the variables the iterator has converted so far
    built,          \* the Operation returned
    opc,            \* "match" | "collect" | "done" | "panic" | "idle"
    \* ---- one call of keyword_replace
    searched,       \* the argument `needle`
    std,            \* the binary search the standard library provides
    replaced,       \* the String returned
    kpc             \* "call" | "done" | "idle"

decVars == <<ident, qualifiers, pos, qualified, non_null, dpc>>

selVars == <<op, strategy, target_lang, selection, prefix, scope, required, next_item, field_buffer,
             variants_buffer, response_type_buffer, spc, err>>

enumVars == <<enum_values, normalization, enum_def, wire, value, serialized, epc>>

modVars == <<document, mode, operation_name, operations, is_required, next_def, next_op,
             modules, gpc, gerr>>

cacheVars == <<files, query_cache, schema_cache, query_lock, schema_lock, tpc, query_path,
               schema_path, occupied, query_string, schema_string, ncalls, nedits>>

litVars == <<generator, variables, next_var, constructors, vpc>>

opVars == <<definition, converted, built, opc>>

kwVars == <<searched, std, replaced, kpc>>

laterVars == <<modVars, cacheVars, litVars, opVars, kwVars>>

\* what the steps of one part of the program leave alone
notMod == <<decVars, selVars, enumVars, cacheVars, litVars, opVars, kwVars>>

notCache == <<decVars, selVars, enumVars, modVars, litVars, opVars, kwVars>>

notLit == <<decVars, selVars, enumVars, modVars, cacheVars, opVars, kwVars>>

notOp == <<decVars, selVars, enumVars, modVars, cacheVars, litVars, kwVars>>

notKw == <<decVars, selVars, enumVars, modVars, cacheVars, litVars, opVars>>

vars == <<decVars, selVars, enumVars, laterVars>>

-----------------------------------------------------------------------------
(* Bounds *)

\* longest qualifier chain explored
MaxQualifiers == 4

\* most items in a selection on an object type
MaxItems == 2

\* most items in a selection on a union
MaxUnionItems == 3

-----------------------------------------------------------------------------
(* Generic helpers *)

SeqsUpTo(S, n) == UNION {[1..k -> S] : k \in 0..n}

-----------------------------------------------------------------------------
(***************************************************************************)
(* decorate_type (codegen.rs:442-478)                                      *)
(***************************************************************************)

\* GraphqlTypeQualifier
Qualifier == {"List", "Required"}

\* the identifiers decorate_type is called with in the explored runs
Idents == {"Int", "User"}

\* a seeded fault: the non-null list arm adds two list layers
WrapVecTwice(q) == <<"Vec", "Vec">> \o q

\* quote!(Vec<#qualified>)
WrapVec(q) == <<"Vec">> \o q

\* quote!(Vec<Option<#qualified>>)
WrapVecOption(q) == <<"Vec", "Option">> \o q

\* quote!(Option<#qualified>)
WrapOption(q) == <<"Option">> \o q

\* a seeded fault: the nullable-list arm forgets the Option
MatchArmNoOption(nn, qualifier, q) ==
    CASE nn /\ qualifier = "List"      -> [qualified |-> WrapVec(q), non_null |-> FALSE, panic |-> FALSE]
      [] ~nn /\ qualifier = "List"     -> [qualified |-> WrapVec(q), non_null |-> FALSE, panic |-> FALSE]
      [] nn /\ qualifier = "Required"  -> [qualified |-> q, non_null |-> nn, panic |-> TRUE]
      [] ~nn /\ qualifier = "Required" -> [qualified |-> q, non_null |-> TRUE, panic |-> FALSE]

\* a seeded fault: a second Required is accepted silently
MatchArmNoPanic(nn, qualifier, q) ==
    CASE nn /\ qualifier = "List"      -> [qualified |-> WrapVec(q), non_null |-> FALSE, panic |-> FALSE]
      [] ~nn /\ qualifier = "List"     -> [qualified |-> WrapVecOption(q), non_null |-> FALSE, panic |-> FALSE]
      [] nn /\ qualifier = "Required"  -> [qualified |-> q, non_null |-> TRUE, panic |-> FALSE]
      [] ~nn /\ qualifier = "Required" -> [qualified |-> q, non_null |-> TRUE, panic |-> FALSE]

\* a seeded fault: the two List arms are swapped
MatchArmSwapped(nn, qualifier, q) ==
    CASE nn /\ qualifier = "List"      -> [qualified |-> WrapVecOption(q), non_null |-> FALSE, panic |-> FALSE]
      [] ~nn /\ qualifier = "List"     -> [qualified |-> WrapVec(q), non_null |-> FALSE, panic |-> FALSE]
      [] nn /\ qualifier = "Required"  -> [qualified |-> q, non_null |-> nn, panic |-> TRUE]
      [] ~nn /\ qualifier = "Required" -> [qualified |-> q, non_null |-> TRUE, panic |-> FALSE]

\* the match on (non_null, qualifier) in the loop body
MatchArm(nn, qualifier, q) ==
    CASE nn /\ qualifier = "List"      -> [qualified |-> WrapVec(q), non_null |-> FALSE, panic |-> FALSE]
      [] ~nn /\ qualifier = "List"     -> [qualified |-> WrapVecOption(q), non_null |-> FALSE, panic |-> FALSE]
      [] nn /\ qualifier = "Required"  -> [qualified |-> q, non_null |-> nn, panic |-> TRUE]
      [] ~nn /\ qualifier = "Required" -> [qualified |-> q, non_null |-> TRUE, panic |-> FALSE]

\* a seeded fault: the result is wrapped whatever the context
FinalWrapAlways(nn, q) == WrapOption(q)

\* the `if !non_null` after the loop
FinalWrap(nn, q) == IF ~nn THEN WrapOption(q) ELSE q

\* no decorate_type call is observed
DecIdle ==
    /\ ident = ""
    /\ qualifiers = <<>>
    /\ pos = 0
    /\ qualified = <<>>
    /\ non_null = FALSE
    /\ dpc = "idle"

NoEnumDef == [variant_names |-> <<>>, constructors |-> <<>>, variant_str |-> <<>>]

NoValue == [variant |-> "", carried |-> ""]

\* no enum is generated
EnumUnused ==
    /\ enum_values = <<>>
    /\ enum_def = NoEnumDef
    /\ wire = ""
    /\ value = NoValue
    /\ serialized = ""
    /\ epc = "idle"

EnumIdle == EnumUnused /\ normalization = "None"

NoError == [kind |-> "", struct_name |-> "", defined |-> <<>>]

\* generate_module_token_stream is not called
ModIdle ==
    /\ document = <<>>
    /\ mode = "Cli"
    /\ operation_name = ""
    /\ operations = <<>>
    /\ is_required = <<>>
    /\ next_def = 0
    /\ next_op = 0
    /\ modules = <<>>
    /\ gpc = "idle"
    /\ gerr = NoError

\* no thread calls generate_module_token_stream
CacheIdle ==
    /\ files = <<>>
    /\ query_cache = <<>>
    /\ schema_cache = <<>>
    /\ query_lock = ""
    /\ schema_lock = ""
    /\ tpc = <<>>
    /\ query_path = <<>>
    /\ schema_path = <<>>
    /\ occupied = <<>>
    /\ query_string = <<>>
    /\ schema_string = <<>>
    /\ ncalls = 0
    /\ nedits = 0

\* no Variables struct is generated
LitIdle ==
    /\ generator = "none"
    /\ variables = <<>>
    /\ next_var = 0
    /\ constructors = <<>>
    /\ vpc = "idle"

NoOperation == [name |-> "", operation_type |-> "", variables |-> <<>>, selection |-> <<>>]

NoDefinition == [kind |-> "", name |-> "", variable_definitions |-> <<>>,
                 selection_set |-> <<>>]

\* no definition is converted
OpIdle ==
    /\ definition = NoDefinition
    /\ converted = <<>>
    /\ built = NoOperation
    /\ opc = "idle"

\* keyword_replace is not called on its own
KwIdle ==
    /\ searched = ""
    /\ std = ""
    /\ replaced = ""
    /\ kpc = "idle"

TailIdle == OpIdle /\ KwIdle

LaterIdle == ModIdle /\ CacheIdle /\ LitIdle /\ TailIdle

\* no selection renderer runs
SelUnused ==
    /\ op = "none"
    /\ strategy = "Allow"
    /\ selection = <<>>
    /\ prefix = ""
    /\ scope = ""
    /\ required = {}
    /\ next_item = 0
    /\ field_buffer = <<>>
    /\ variants_buffer = <<>>
    /\ response_type_buffer = <<>>
    /\ spc = "idle"
    /\ err = ""

SelIdle == SelUnused /\ target_lang = "Rust"

\* entry: qualified = quote!(#ident), non_null = false, iterator at the end
DecorateInit ==
    /\ SelIdle
    /\ EnumIdle
    /\ LaterIdle
    /\ ident \in Idents
    /\ qualifiers \in SeqsUpTo(Qualifier, MaxQualifiers)
    /\ pos = Len(qualifiers)
    /\ qualified = <<ident>>
    /\ non_null = FALSE
    /\ dpc = "loop"

\* one iteration of `for qualifier in qualifiers.iter().rev()`
DecorateIter ==
    /\ dpc = "loop"
    /\ pos > 0
    /\ LET r == MatchArm(non_null, qualifiers[pos], qualified)
       IN  /\ qualified' = r.qualified
           /\ non_null' = r.non_null
           /\ dpc' = IF r.panic THEN "panic" ELSE "loop"
           /\ pos' = pos - 1
    /\ UNCHANGED <<ident, qualifiers, selVars, enumVars, laterVars>>

\* the iterator is exhausted: wrap if nullable and return
DecorateReturn ==
    /\ dpc = "loop"
    /\ pos = 0
    /\ qualified' = FinalWrap(non_null, qualified)
    /\ dpc' = "done"
    /\ UNCHANGED <<ident, qualifiers, pos, non_null, selVars, enumVars, laterVars>>

DecorateNext == DecorateIter \/ DecorateReturn

SpecDecorate == DecorateInit /\ [][DecorateNext]_vars

\* decorate_type as a function of its arguments: the loop above run to its end
RECURSIVE DecorateLoop(_, _, _, _)
DecorateLoop(qs, i, q, nn) ==
    IF i = 0 THEN [qualified |-> q, non_null |-> nn, panic |-> FALSE]
    ELSE LET r == MatchArm(nn, qs[i], q)
         IN  IF r.panic THEN r ELSE DecorateLoop(qs, i - 1, r.qualified, r.non_null)

decorate_type(id, qs) ==
    LET r == DecorateLoop(qs, Len(qs), <<id>>, FALSE)
    IN  IF r.panic THEN <<"panic!">> ELSE FinalWrap(r.non_null, r.qualified)

-----------------------------------------------------------------------------
(***************************************************************************)
(* keyword_replace (shared.rs:13-81)                                       *)
(***************************************************************************)

\* the list as written in the source, in its order
RUST_KEYWORDS == <<
    "abstract", "alignof", "as", "async", "await", "become",
    "box", "break", "const", "continue", "crate", "do",
    "else", "enum", "extern crate", "extern", "false", "final",
    "fn", "for", "for", "if let", "if", "if",
    "impl", "impl", "in", "let", "loop", "macro",
    "match", "mod", "move", "mut", "offsetof", "override",
    "priv", "proc", "pub", "pure", "ref", "return",
    "self", "sizeof", "static", "struct", "super", "trait",
    "true", "type", "typeof", "unsafe", "unsized", "use",
    "use", "virtual", "where", "while", "yield" >>

\* the strings the model compares, in the byte order of `str: Ord`
StringOrder == <<
    "A", "B", "Media", "MyUnion", "Node", "Organization",
    "Other", "SearchResult", "Team", "User", "Widget", "a", "abstract", "alignof",
    "as", "async", "await", "b", "become", "box",
    "break", "build", "const", "continue", "crate", "direct",
    "do", "else", "enum", "extern", "extern crate", "extern_",
    "false", "final", "first_name", "fn", "for", "fora",
    "friend", "head", "if", "if let", "if_", "impl",
    "in", "in_", "legacy", "let", "lookup", "loop",
    "macro", "match", "me", "missing", "mod", "move",
    "mut", "nest", "nick", "offsetof", "on", "other",
    "outer", "override", "ping", "pong", "priv", "proc",
    "pub", "pure", "ref", "return", "search", "self",
    "self_", "sizeof", "static", "struct", "super", "tag",
    "tail", "title", "trait", "true", "type", "typename",
    "typeof", "unsafe", "unsized", "use", "user", "v",
    "version", "virtual", "where", "while", "yield", "zz" >>

Rank(str) == CHOOSE i \in 1..Len(StringOrder) : StringOrder[i] = str

\* Ordering of `a.cmp(b)`: "Less", "Equal" or "Greater"
StrCmp(a, b) ==
    IF a = b THEN "Equal" ELSE IF Rank(a) < Rank(b) THEN "Less" ELSE "Greater"

\* slice::binary_search, the halving loop of the standard library; indices
\* are 1-based here.  Returns [found, index].
RECURSIVE BinarySearchLoop(_, _, _, _)
BinarySearchLoop(list, needle, base, size) ==
    IF size > 1
    THEN LET half == size \div 2
             mid  == base + half
         IN  BinarySearchLoop(list, needle,
                 IF StrCmp(list[mid], needle) = "Greater" THEN base ELSE mid,
                 size - half)
    ELSE [found |-> StrCmp(list[base], needle) = "Equal", index |-> base]

binary_search(list, needle) ==
    IF Len(list) = 0 THEN [found |-> FALSE, index |-> 0]
    ELSE BinarySearchLoop(list, needle, 1, Len(list))

keyword_replace(needle) ==
    LET r == binary_search(RUST_KEYWORDS, needle)
    IN  IF r.found THEN RUST_KEYWORDS[r.index] \o "_" ELSE needle

-----------------------------------------------------------------------------
(***************************************************************************)
(* The schema and the fragments of the explored runs.  The object types    *)
(* User and Organization and the union are those of the tests of           *)
(* unions.rs; Query carries one field per category and deprecation status. *)
(***************************************************************************)

SchemaField(n, t, q, d, r) ==
    [name |-> n, type |-> t, quals |-> q, deprecation |-> d, reason |-> r]

\* the category of each named type of the schema (TypeId)
TypeKind ==
    [t \in {"Query", "User", "Organization", "Team", "Node", "SearchResult",
            "Media", "String", "Int", "Date", "Tag", "Color", "Filter", "Range"} |->
        CASE t \in {"Query", "User", "Organization", "Team"} -> "Object"
          [] t = "Node" -> "Interface"
          [] t \in {"SearchResult", "Media"} -> "Union"
          [] t \in {"String", "Int", "Date"} -> "Scalar"
          [] t \in {"Tag", "Color"} -> "Enum"
          [] t \in {"Filter", "Range"} -> "Input"]

SchemaTypes == DOMAIN TypeKind

\* schema.objects / schema.interfaces / schema.unions
SchemaObjects == {t \in SchemaTypes : TypeKind[t] = "Object"}
SchemaInterfaces == {t \in SchemaTypes : TypeKind[t] = "Interface"}
SchemaUnions == {t \in SchemaTypes : TypeKind[t] = "Union"}

\* GqlUnion.variants: the members each union declares.  MyUnion is the
\* union of the tests of unions.rs, which declares none.
UnionVariants ==
    [u \in {"SearchResult", "Media", "MyUnion"} |->
        CASE u = "SearchResult" -> {"User", "Organization"}
          [] u = "Media" -> {"Team"}
          [] u = "MyUnion" -> {}]

TypenameField == SchemaField("__typename", "String", <<"Required">>, "Current", "")

\* the fields of each object or interface type (GqlObject.fields), in
\* declared order
ObjectFields(t) ==
    CASE t = "Query" ->
            << TypenameField,
               SchemaField("version", "String", <<"Required">>, "Current", ""),
               SchemaField("build", "Int", <<>>, "DeprecatedNoReason", ""),
               SchemaField("tag", "Tag", <<>>, "DeprecatedReason", "untagged"),
               SchemaField("type", "Tag", <<"Required">>, "Current", ""),
               SchemaField("user", "User", <<>>, "Current", ""),
               SchemaField("legacy", "User", <<"List">>, "DeprecatedReason", "use user"),
               SchemaField("search", "SearchResult", <<"Required">>, "Current", ""),
               SchemaField("lookup", "SearchResult", <<>>, "DeprecatedNoReason", "") >>
      [] t = "User" ->
            << TypenameField,
               SchemaField("firstName", "String", <<"Required">>, "Current", ""),
               SchemaField("nick", "String", <<>>, "DeprecatedReason", "use firstName"),
               SchemaField("friend", "User", <<>>, "Current", "") >>
      [] t \in {"Organization", "Team", "Node"} ->
            << TypenameField,
               SchemaField("title", "String", <<"Required">>, "Current", "") >>
      [] OTHER -> <<>>

HasField(t, n) == \E i \in 1..Len(ObjectFields(t)) : ObjectFields(t)[i].name = n

\* fields.iter().find(|f| f.name == name)
FindField(t, n) ==
    LET fs == ObjectFields(t)
        i  == CHOOSE k \in 1..Len(fs) :
                  fs[k].name = n /\ \A j \in 1..(k - 1) : fs[j].name # n
    IN  fs[i]

\* heck's to_snake_case and to_camel_case on the names of the explored runs
SnakeCase(n) ==
    CASE n = "firstName" -> "first_name"
      [] n = "__typename" -> "typename"
      [] n = "Direct" -> "direct"
      [] n = "Ping" -> "ping"
      [] n = "Pong" -> "pong"
      [] n = "Head" -> "head"
      [] n = "Tail" -> "tail"
      [] n = "Nest" -> "nest"
      [] n = "Outer" -> "outer"
      [] n = "Missing" -> "missing"
      [] n = "A" -> "a"
      [] n = "B" -> "b"
      [] n = "D" -> "d"
      [] OTHER -> n

CamelCase(n) ==
    CASE n = "" -> ""
      [] n = "firstName" -> "FirstName"
      [] n = "__typename" -> "Typename"
      [] n = "version" -> "Version"
      [] n = "v" -> "V"
      [] n = "build" -> "Build"
      [] n = "tag" -> "Tag"
      [] n = "type" -> "Type"
      [] n = "user" -> "User"
      [] n = "me" -> "Me"
      [] n = "legacy" -> "Legacy"
      [] n = "search" -> "Search"
      [] n = "lookup" -> "Lookup"
      [] n = "nick" -> "Nick"
      [] n = "friend" -> "Friend"
      [] n = "title" -> "Title"
      [] n = "my_query" -> "MyQuery"
      [] n = "userFriend" -> "UserFriend"
      [] n = "user_friend" -> "UserFriend"
      [] OTHER -> n

-----------------------------------------------------------------------------
(***************************************************************************)
(* Selections.  An item is a record [kind, name, alias, on, sub]:          *)
(*   Field           name, alias ("" when None), sub = nested selection    *)
(*   Typename        the __typename meta-field                             *)
(*   FragmentSpread  name = the fragment's name                            *)
(*   InlineFragment  on = the type condition, sub = nested selection       *)
(***************************************************************************)

Field(n, a, sub) == [kind |-> "Field", name |-> n, alias |-> a, on |-> "", sub |-> sub]
Typename == [kind |-> "Typename", name |-> "__typename", alias |-> "", on |-> "", sub |-> <<>>]
FragmentSpread(n) == [kind |-> "FragmentSpread", name |-> n, alias |-> "", on |-> "", sub |-> <<>>]
InlineFragment(t, sub) == [kind |-> "InlineFragment", name |-> "", alias |-> "", on |-> t, sub |-> sub]

\* the fragments of the query document (context.fragments): a fragment that
\* spreads itself, two that spread each other, one that spreads itself under
\* a field, a chain Head -> Tail that never returns, and one that spreads a
\* recursive fragment without being reached by it
FragmentNames == {"Direct", "Ping", "Pong", "Nest", "Head", "Tail", "Outer"}

\* the type condition of each fragment
FragmentOn(n) == "User"

FragmentSelection(n) ==
    CASE n = "Direct" -> << Field("firstName", "", <<>>), FragmentSpread("Direct") >>
      [] n = "Ping"   -> << FragmentSpread("Pong") >>
      [] n = "Pong"   -> << Field("firstName", "", <<>>), FragmentSpread("Ping") >>
      [] n = "Nest"   -> << Field("friend", "", << FragmentSpread("Nest") >>) >>
      [] n = "Head"   -> << Field("firstName", "", <<>>), FragmentSpread("Tail") >>
      [] n = "Tail"   -> << Field("nick", "", <<>>) >>
      [] n = "Outer"  -> << FragmentSpread("Direct") >>
      [] OTHER        -> <<>>

\* the names of the fragments a selection spreads, at any depth of fields
\* and inline fragments
RECURSIVE SpreadsIn(_)
SpreadsIn(sel) ==
    UNION { IF sel[i].kind = "FragmentSpread" THEN {sel[i].name}
            ELSE SpreadsIn(sel[i].sub) : i \in 1..Len(sel) }

\* the fragments the expansion of a set of fragments reaches
RECURSIVE ReachedFrom(_, _)
ReachedFrom(names, fuel) ==
    LET more == names \cup UNION {SpreadsIn(FragmentSelection(n)) : n \in names}
    IN  IF fuel = 0 \/ more = names THEN names ELSE ReachedFrom(more, fuel - 1)

\* Fragment::is_recursive: the expansion of the fragment reaches a spread of
\* itself, directly or through other fragments
is_recursive(n) ==
    n \in ReachedFrom(SpreadsIn(FragmentSelection(n)), Cardinality(FragmentNames))

-----------------------------------------------------------------------------
(***************************************************************************)
(* render_selection (codegen.rs:259-429) and what it calls                 *)
(***************************************************************************)

DeprecationStrategy == {"Allow", "Warn", "Deny"}

\* an emitted struct field: its identifier, the serde rename ("" when none),
\* its type, the #[deprecated] attribute (and its note, "" when it has
\* none) and #[serde(flatten)]
EmitField(n, rn, ty, dep, note, fl) ==
    [name |-> n, rename |-> rn, type |-> ty, deprecated |-> dep, note |-> note,
     flatten |-> fl]

\* shared.rs:259-265
field_rename_annotation(graphql_name, rust_name) ==
    IF graphql_name # rust_name THEN graphql_name ELSE ""

\* field.schema_field().is_deprecated()
is_deprecated(f) == f.deprecation # "Current"

\* deprecation_message().unwrap_or("This field is deprecated.")
DeprecationNote(f) ==
    IF f.deprecation = "DeprecatedReason" THEN f.reason ELSE "This field is deprecated."

\* codegen.rs:275-289: the match on (is_deprecated, strategy); skip is the
\* `continue`
DeprecationAnnotation(f, strat) ==
    CASE ~is_deprecated(f) \/ strat = "Allow" -> [skip |-> FALSE, deprecated |-> FALSE, note |-> ""]
      [] strat = "Warn" -> [skip |-> FALSE, deprecated |-> TRUE, note |-> DeprecationNote(f)]
      [] strat = "Deny" -> [skip |-> TRUE, deprecated |-> FALSE, note |-> ""]

\* codegen.rs:431-440
field_name(item) ==
    LET name == IF item.alias # "" THEN item.alias ELSE item.name
        final_name == keyword_replace(SnakeCase(name))
    IN  [ident |-> final_name, rename |-> field_rename_annotation(name, final_name)]

\* full_path_prefix of a selected field: the names of its ancestors and its
\* own (alias or name), case-normalized and concatenated
FieldPathPrefix(path, item) ==
    path \o CamelCase(IF item.alias # "" THEN item.alias ELSE item.name)

\* full_path_prefix of an inline fragment
InlinePathPrefix(path, item) == path \o "On" \o item.on

NoEnum == [name |-> "", variants |-> <<>>]

\* codegen.rs:569-583
render_union_enum(enum_name, variants) == [name |-> enum_name, variants |-> variants]

\* codegen.rs:533-567: the struct, its `on` field and its companion enum
render_object_like_struct(struct_name, fields, variants) ==
    [name |-> struct_name,
     fields |-> fields,
     on_field |-> Len(variants) > 0,
     on_enum |-> IF Len(variants) > 0
                 THEN render_union_enum(struct_name \o "On", variants)
                 ELSE NoEnum]

\* codegen.rs:540-545: #[serde(flatten)] pub on: #enum_name
OnField(enum_name) == EmitField("on", "", <<enum_name>>, FALSE, "", TRUE)

\* codegen.rs:559-564: the fields of the struct in the order the template
\* lays them out, `#(#fields,)* #on_field`
StructFieldsOnFirst(struct) ==
    (IF struct.on_field THEN << OnField(struct.on_enum.name) >> ELSE <<>>)
        \o struct.fields

StructFields(struct) ==
    struct.fields
        \o (IF struct.on_field THEN << OnField(struct.on_enum.name) >> ELSE <<>>)

NoOutput == [fields |-> <<>>, variants |-> <<>>, types |-> <<>>]

\* One iteration of the loop of render_selection on `item`, selected on type
\* `on_type` under the path `path`: what it pushes to field_buffer, to
\* variants_buffer and to response_type_buffer.  RenderSelection is the
\* whole loop, as the nested calls run it.
RECURSIVE RenderItem(_, _, _, _), RenderSelection(_, _, _, _, _)
RenderItem(item, on_type, path, strat) ==
    CASE item.kind = "Field" ->
            LET f   == FindField(on_type, item.name)
                dep == DeprecationAnnotation(f, strat)
                id  == field_name(item)
            IN  IF dep.skip THEN NoOutput
                ELSE IF TypeKind[f.type] \in {"Enum", "Scalar"}
                THEN [fields |-> << EmitField(id.ident, id.rename,
                                        decorate_type(f.type, f.quals),
                                        dep.deprecated, dep.note, FALSE) >>,
                      variants |-> <<>>,
                      types |-> <<>>]
                ELSE \* Object, Interface and Union run the same code
                     LET struct_name == FieldPathPrefix(path, item)
                         sub == RenderSelection(item.sub, 1, f.type, struct_name, strat)
                     IN  [fields |-> << EmitField(id.ident, id.rename,
                                            decorate_type(struct_name, f.quals),
                                            dep.deprecated, dep.note, FALSE) >>,
                          variants |-> <<>>,
                          types |-> sub.types \o
                              << render_object_like_struct(struct_name, sub.fields,
                                                           sub.variants) >>]
      [] item.kind = "Typename" ->
            [fields |-> << EmitField("typename", "__typename", <<"String">>,
                                     FALSE, "", FALSE) >>,
             variants |-> <<>>,
             types |-> <<>>]
      [] item.kind = "InlineFragment" ->
            LET struct_name == InlinePathPrefix(path, item)
                sub == RenderSelection(item.sub, 1, item.on, struct_name, strat)
            IN  [fields |-> <<>>,
                 variants |-> << [name |-> item.on, struct |-> struct_name] >>,
                 types |-> sub.types \o
                     << render_object_like_struct(struct_name, sub.fields,
                                                  sub.variants) >>]
      [] item.kind = "FragmentSpread" ->
            LET original_field_name == SnakeCase(item.name)
                final_field_name == keyword_replace(original_field_name)
            IN  [fields |-> << EmitField(final_field_name,
                                   field_rename_annotation(original_field_name,
                                                           final_field_name),
                                   <<item.name>>, FALSE, "", TRUE) >>,
                 variants |-> <<>>,
                 types |-> <<>>]

RenderSelection(sel, i, on_type, path, strat) ==
    IF i > Len(sel) THEN NoOutput
    ELSE LET head == RenderItem(sel[i], on_type, path, strat)
             rest == RenderSelection(sel, i + 1, on_type, path, strat)
         IN  [fields |-> head.fields \o rest.fields,
              variants |-> head.variants \o rest.variants,
              types |-> head.types \o rest.types]

\* one iteration of the loop of the outermost render_selection call
RenderSelectionStep ==
    /\ op = "render_selection"
    /\ spc = "loop"
    /\ next_item < Len(selection)
    /\ LET out == RenderItem(selection[next_item + 1], scope, prefix, strategy)
       IN  /\ field_buffer' = field_buffer \o out.fields
           /\ variants_buffer' = variants_buffer \o out.variants
           /\ response_type_buffer' = response_type_buffer \o out.types
    /\ next_item' = next_item + 1
    /\ UNCHANGED <<op, strategy, target_lang, selection, prefix, scope, required,
                   spc, err, decVars, enumVars, laterVars>>

\* the loop is over: render_selection returns
RenderSelectionReturn ==
    /\ op = "render_selection"
    /\ spc = "loop"
    /\ next_item = Len(selection)
    /\ spc' = "ok"
    /\ UNCHANGED <<op, strategy, target_lang, selection, prefix, scope, required,
                   next_item, field_buffer, variants_buffer, response_type_buffer,
                   err, decVars, enumVars, laterVars>>

-----------------------------------------------------------------------------
(***************************************************************************)
(* response_fields_for_selection and render_object_field (shared.rs)       *)
(***************************************************************************)

TargetLang == {"Rust", "Go"}

\* shared.rs:83-126.  Returns the sequence of emitted fields: empty for
\* None, one field for Some.  The Go arm emits the name, the type and the
\* JSON tag of the raw name (kept in `rename`), and nothing else.
render_object_field(lang, fname, ftype, status, reason, strat) ==
    IF status # "Current" /\ strat = "Deny" THEN <<>>
    ELSE LET deprecation ==
                 CASE strat = "Allow" -> [deprecated |-> FALSE, note |-> ""]
                   [] status = "Current" -> [deprecated |-> FALSE, note |-> ""]
                   [] status = "DeprecatedReason" -> [deprecated |-> TRUE, note |-> reason]
                   [] status = "DeprecatedNoReason" -> [deprecated |-> TRUE, note |-> ""]
             name == IF lang = "Rust" THEN keyword_replace(SnakeCase(fname))
                                      ELSE CamelCase(fname)
         IN  IF lang = "Rust"
             THEN << EmitField(name, field_rename_annotation(fname, name), ftype,
                               deprecation.deprecated, deprecation.note, FALSE) >>
             ELSE << EmitField(name, fname, ftype, FALSE, "", FALSE) >>

\* FieldType::to_rust / to_go: the shape of the field's type, named by the
\* scalar or enum, or by the prefixed struct of a nested selection
FieldTypeShape(f, nested_name) ==
    decorate_type(IF TypeKind[f.type] \in {"Enum", "Scalar"} THEN f.type ELSE nested_name,
                  f.quals)

\* shared.rs:224-232: the type of the field of a fragment spread
SpreadType(lang, fragment_name) ==
    IF is_recursive(fragment_name)
    THEN IF lang = "Rust" THEN <<"Box", fragment_name>> ELSE <<"*", fragment_name>>
    ELSE <<fragment_name>>

NoFieldsError == [err |-> "", fields |-> <<>>, require |-> {}]

\* shared.rs:168-246: the closure mapped over the selection, on one item:
\* the error it returns ("" for Ok), the field it yields (none for Ok(None))
\* and the fragment it marks required.  __typename is a field like any other.
ResponseFieldsItem(lang, item, type_name, pfx, strat) ==
    CASE item.kind \in {"Field", "Typename"} ->
            IF ~HasField(type_name, item.name)
            THEN [err |-> "UnknownField", fields |-> <<>>, require |-> {}]
            ELSE LET alias == IF item.alias # "" THEN item.alias ELSE item.name
                     schema_field == FindField(type_name, item.name)
                     ty == FieldTypeShape(schema_field, CamelCase(pfx) \o CamelCase(alias))
                 IN  [err |-> "",
                      fields |-> render_object_field(lang, alias, ty,
                                     schema_field.deprecation, schema_field.reason, strat),
                      require |-> {}]
      [] item.kind = "FragmentSpread" ->
            IF item.name \notin FragmentNames
            THEN [err |-> "UnknownFragment", fields |-> <<>>, require |-> {item.name}]
            ELSE [err |-> "",
                  fields |-> IF lang = "Rust"
                             THEN << EmitField(SnakeCase(item.name), "",
                                         SpreadType(lang, item.name), FALSE, "", TRUE) >>
                             ELSE << EmitField("", "", SpreadType(lang, item.name),
                                         FALSE, "", TRUE) >>,
                  require |-> {item.name}]
      [] item.kind = "InlineFragment" ->
            [err |-> "InlineFragmentOnObjectField", fields |-> <<>>, require |-> {}]

\* the whole of response_fields_for_selection, as its callers run it:
\* collect() stops at the first error and drops the fields gathered so far
RECURSIVE ResponseFields(_, _, _, _, _, _)
ResponseFields(lang, sel, i, type_name, pfx, strat) ==
    IF i > Len(sel) THEN NoFieldsError
    ELSE LET head == ResponseFieldsItem(lang, sel[i], type_name, pfx, strat)
         IN  IF head.err # "" THEN head
             ELSE LET rest == ResponseFields(lang, sel, i + 1, type_name, pfx, strat)
                  IN  IF rest.err # ""
                      THEN [rest EXCEPT !.require = head.require \cup rest.require]
                      ELSE [err |-> "",
                            fields |-> head.fields \o rest.fields,
                            require |-> head.require \cup rest.require]

\* the iterator yields one item to the closure
ResponseFieldsStep ==
    /\ op = "response_fields_for_selection"
    /\ spc = "loop"
    /\ next_item < Len(selection)
    /\ LET out == ResponseFieldsItem(target_lang, selection[next_item + 1], scope,
                                     prefix, strategy)
       IN  /\ required' = required \cup (out.require \cap FragmentNames)
           /\ IF out.err # ""
              THEN /\ err' = out.err
                   /\ spc' = "err"
                   /\ field_buffer' = <<>>
              ELSE /\ field_buffer' = field_buffer \o out.fields
                   /\ UNCHANGED <<err, spc>>
    /\ next_item' = next_item + 1
    /\ UNCHANGED <<op, strategy, target_lang, selection, prefix, scope,
                   variants_buffer, response_type_buffer, decVars, enumVars, laterVars>>

\* the iterator is exhausted: collect() returns Ok
ResponseFieldsReturn ==
    /\ op = "response_fields_for_selection"
    /\ spc = "loop"
    /\ next_item = Len(selection)
    /\ spc' = "ok"
    /\ UNCHANGED <<op, strategy, target_lang, selection, prefix, scope, required,
                   next_item, field_buffer, variants_buffer, response_type_buffer,
                   err, decVars, enumVars, laterVars>>

-----------------------------------------------------------------------------
(***************************************************************************)
(* Runs of the two field renderers on a selection on the type Query        *)
(***************************************************************************)

\* the items a selection on Query is built from: a field of every category
\* with every deprecation status, an alias, nested selections, __typename,
\* spreads of every fragment and an inline fragment
QueryItems ==
    { Field("version", "", <<>>), Field("version", "v", <<>>),
      Field("build", "", <<>>), Field("tag", "", <<>>), Field("type", "", <<>>),
      Field("user", "", << Field("firstName", "", <<>>) >>),
      Field("user", "me", << Field("firstName", "", <<>>), Field("nick", "", <<>>) >>),
      Field("legacy", "", << Field("firstName", "", <<>>) >>),
      Field("search", "", << Typename, InlineFragment("User", << Field("firstName", "", <<>>) >>) >>),
      Field("lookup", "", << Typename >>),
      Typename,
      InlineFragment("Query", << Field("version", "", <<>>) >>) }
    \cup { FragmentSpread(n) : n \in FragmentNames }

\* a spread of a fragment the document does not define, and a field the type
\* does not have: shared.rs looks both up itself
UnresolvedItems == { FragmentSpread("Missing"), Field("title", "", <<>>) }

FieldsInit ==
    /\ DecIdle
    /\ EnumIdle
    /\ LaterIdle
    /\ strategy \in DeprecationStrategy
    /\ scope = "Query"
    /\ prefix = ""
    /\ required = {}
    /\ next_item = 0
    /\ field_buffer = <<>>
    /\ variants_buffer = <<>>
    /\ response_type_buffer = <<>>
    /\ spc = "loop"
    /\ err = ""
    /\ \/ /\ op = "render_selection"
          /\ target_lang = "Rust"
          /\ selection \in SeqsUpTo(QueryItems, MaxItems)
       \/ /\ op = "response_fields_for_selection"
          /\ target_lang \in TargetLang
          /\ selection \in SeqsUpTo(QueryItems \cup UnresolvedItems, MaxItems)

FieldsNext ==
    \/ RenderSelectionStep
    \/ RenderSelectionReturn
    \/ ResponseFieldsStep
    \/ ResponseFieldsReturn

SpecFields == FieldsInit /\ [][FieldsNext]_vars

-----------------------------------------------------------------------------
(***************************************************************************)
(* union_variants and GqlUnion::response_for_selection (unions.rs)         *)
(***************************************************************************)

\* Selection::extract_typename: the selection selects __typename
extract_typename(sel) ==
    \E i \in 1..Len(sel) : sel[i].kind = "Typename"

\* the first occurrences of the elements of a sequence, in order
RECURSIVE Dedup(_)
Dedup(seq) ==
    IF seq = <<>> THEN <<>>
    ELSE LET init == Dedup(SubSeq(seq, 1, Len(seq) - 1))
             last == seq[Len(seq)]
         IN  IF \E i \in 1..Len(init) : init[i] = last THEN init ELSE Append(init, last)

\* a set of strings as the sequence a BTreeMap or BTreeSet iterates it in
RECURSIVE Sorted(_)
Sorted(S) ==
    IF S = {} THEN <<>>
    ELSE LET least == CHOOSE x \in S : \A y \in S : Rank(x) <= Rank(y)
         IN  <<least>> \o Sorted(S \ {least})

\* the member an item of a selection on a union targets ("" for a field)
TargetOf(item) ==
    CASE item.kind = "InlineFragment" -> item.on
      [] item.kind = "FragmentSpread" -> FragmentOn(item.name)
      [] OTHER -> ""

\* Selection::selected_variants_on_union: the fragments of the selection
\* grouped by the member they target; the keys of the map ...
SelectedVariantKeys(sel) ==
    {TargetOf(sel[i]) : i \in {j \in 1..Len(sel) : TargetOf(sel[j]) # ""}}

RECURSIVE MergedFields(_, _, _)
MergedFields(sel, i, on) ==
    IF i > Len(sel) THEN <<>>
    ELSE (CASE sel[i].kind = "InlineFragment" /\ sel[i].on = on -> sel[i].sub
            [] sel[i].kind = "FragmentSpread" /\ FragmentOn(sel[i].name) = on -> << sel[i] >>
            [] OTHER -> <<>>)
         \o MergedFields(sel, i + 1, on)

\* ... and the merged, deduplicated fields of one key
SelectedVariantFields(sel, on) == Dedup(MergedFields(sel, 1, on))

\* the error of selected_variants_on_union: a spread of an unknown fragment
SelectedVariantsError(sel) ==
    IF \E i \in 1..Len(sel) :
           sel[i].kind = "FragmentSpread" /\ sel[i].name \notin FragmentNames
    THEN "UnknownFragment" ELSE ""

Variant(n, st) == [name |-> n, struct |-> st]

NoUnionOutput == [err |-> "", panic |-> FALSE, variants |-> <<>>, children |-> <<>>]

\* a seeded fault: only the declared members of the union are looked up
VariantTypeKnownMembersOnly(u, on) == on \in UnionVariants[u]

\* unions.rs:59-80: the three lookups of `on` in the schema; the None arm
\* of the match is UnknownType
VariantTypeKnown(u, on) ==
    on \in SchemaObjects \/ on \in SchemaInterfaces \/ on \in SchemaUnions

\* unions.rs:115-123: the declared members absent from used_variants, as
\* bare variants
MissingVariants(u, used_variants) ==
    LET missing == {v \in UnionVariants[u] :
                        ~\E i \in 1..Len(used_variants) : used_variants[i] = v}
        order   == Sorted(missing)
    IN  [i \in 1..Len(order) |-> Variant(order[i], "")]

\* a seeded fault: the check of __typename is skipped
TypenameMissingNever(sel) == FALSE

\* unions.rs:101-107
TypenameMissing(sel) == ~extract_typename(sel)

\* QueryContext::maybe_expand_field on the fields of one variant, and the
\* body of the loop of union_variants for the key `on` (unions.rs:51-86):
\* the error, or the child definition and the variant pushed.  In Go the
\* push of the variant is unimplemented!().
\* the definition maybe_expand_field returns for an object or interface ...
ExpandedStruct(r, new_prefix) ==
    [err |-> r.err, panic |-> FALSE,
     def |-> << render_object_like_struct(new_prefix, r.fields, <<>>) >>]

\* ... and for a union
ExpandedEnum(r, new_prefix) ==
    [err |-> r.err, panic |-> r.panic,
     def |-> r.children \o << render_union_enum(new_prefix, r.variants) >>]

\* unions.rs:78-86: the match on the expanded fields and the push of the
\* variant
PushVariant(lang, on, new_prefix, r) ==
    IF r.err # "" \/ r.panic
    THEN [NoUnionOutput EXCEPT !.err = r.err, !.panic = r.panic]
    ELSE IF lang = "Go"
    THEN [NoUnionOutput EXCEPT !.panic = TRUE, !.children = r.def]
    ELSE [NoUnionOutput EXCEPT !.children = r.def,
                               !.variants = << Variant(on, new_prefix) >>]

\* the two results of the loop of union_variants joined
JoinOutput(head, rest) ==
    IF head.err # "" \/ head.panic THEN head
    ELSE IF rest.err # "" \/ rest.panic THEN rest
    ELSE [NoUnionOutput EXCEPT !.variants = head.variants \o rest.variants,
                               !.children = head.children \o rest.children]

\* unions.rs:112-137: the variants extended with the members not selected;
\* the emission is unimplemented!() in Go
ExtendOutput(lang, u, keys, r) ==
    IF r.err # "" \/ r.panic THEN r
    ELSE IF lang = "Go" THEN [NoUnionOutput EXCEPT !.panic = TRUE]
    ELSE [r EXCEPT !.variants = r.variants \o MissingVariants(u, keys)]

\* QueryContext::maybe_expand_field on the fields of one variant, and the
\* body of the loop of union_variants for the key `on` (unions.rs:51-86):
\* the error, or the child definition and the variant pushed.  In Go the
\* push of the variant is unimplemented!().
RECURSIVE MaybeExpandField(_, _, _, _, _), UnionVariantsItem(_, _, _, _, _, _),
          UnionVariantsLoop(_, _, _, _, _, _, _), UnionResponse(_, _, _, _, _)
MaybeExpandField(lang, on, fields, new_prefix, strat) ==
    IF TypeKind[on] = "Union"
    THEN ExpandedEnum(UnionResponse(lang, on, fields, new_prefix, strat), new_prefix)
    ELSE ExpandedStruct(ResponseFields(lang, fields, 1, on, new_prefix, strat),
                        new_prefix)

UnionVariantsItem(lang, u, sel, on, pfx, strat) ==
    IF ~VariantTypeKnown(u, on)
    THEN [NoUnionOutput EXCEPT !.err = "UnknownType"]
    ELSE PushVariant(lang, on, pfx \o "On" \o on,
                     MaybeExpandField(lang, on, SelectedVariantFields(sel, on),
                                      pfx \o "On" \o on, strat))

\* the loop of union_variants from its k-th key on
UnionVariantsLoop(lang, u, sel, keys, k, pfx, strat) ==
    IF k > Len(keys) THEN NoUnionOutput
    ELSE JoinOutput(UnionVariantsItem(lang, u, sel, keys[k], pfx, strat),
                    UnionVariantsLoop(lang, u, sel, keys, k + 1, pfx, strat))

\* the whole of GqlUnion::response_for_selection, as maybe_expand_field runs
\* it on a nested union
UnionResponse(lang, u, sel, pfx, strat) ==
    IF TypenameMissing(sel) THEN [NoUnionOutput EXCEPT !.err = "MissingTypename"]
    ELSE IF SelectedVariantsError(sel) # ""
    THEN [NoUnionOutput EXCEPT !.err = SelectedVariantsError(sel)]
    ELSE ExtendOutput(lang, u, Sorted(SelectedVariantKeys(sel)),
                      UnionVariantsLoop(lang, u, sel, Sorted(SelectedVariantKeys(sel)),
                                        1, pfx, strat))

selFrame == <<op, strategy, target_lang, selection, prefix, scope>>

\* unions.rs:101-107: extract_typename and the MissingTypename error
UnionCheckTypename ==
    /\ op = "response_for_selection"
    /\ spc = "typename"
    /\ IF TypenameMissing(selection)
       THEN err' = "MissingTypename" /\ spc' = "err"
       ELSE err' = err /\ spc' = "select"
    /\ UNCHANGED <<selFrame, required, next_item, field_buffer, variants_buffer,
                   response_type_buffer, decVars, enumVars, laterVars>>

\* unions.rs:46-49: selected_variants_on_union and the `?` on its result
UnionSelectVariants ==
    /\ op = "response_for_selection"
    /\ spc = "select"
    /\ IF SelectedVariantsError(selection) # ""
       THEN err' = SelectedVariantsError(selection) /\ spc' = "err"
       ELSE err' = err /\ spc' = "variants"
    /\ UNCHANGED <<selFrame, required, next_item, field_buffer, variants_buffer,
                   response_type_buffer, decVars, enumVars, laterVars>>

\* unions.rs:51-86: one iteration of the loop over the selected variants.
\* An error drops what the call has gathered (it returns Err).
UnionVariantStep ==
    /\ op = "response_for_selection"
    /\ spc = "variants"
    /\ LET keys == Sorted(SelectedVariantKeys(selection))
       IN  /\ next_item < Len(keys)
           /\ \E out \in { UnionVariantsItem(target_lang, scope, selection,
                                              keys[next_item + 1], prefix, strategy) } :
                  IF out.err # ""
                  THEN /\ err' = out.err
                       /\ spc' = "err"
                       /\ variants_buffer' = <<>>
                       /\ response_type_buffer' = <<>>
                  ELSE /\ err' = err
                       /\ spc' = IF out.panic THEN "panic" ELSE spc
                       /\ variants_buffer' = variants_buffer \o out.variants
                       /\ response_type_buffer' = response_type_buffer \o out.children
    /\ next_item' = next_item + 1
    /\ UNCHANGED <<selFrame, required, field_buffer, decVars, enumVars, laterVars>>

\* unions.rs:88, 112-137: union_variants returns, the variants are extended
\* with the members not selected, and the enum is emitted (Rust) or the
\* call panics (Go: unimplemented!())
UnionExtendAndReturn ==
    /\ op = "response_for_selection"
    /\ spc = "variants"
    /\ LET keys == Sorted(SelectedVariantKeys(selection))
       IN  /\ next_item = Len(keys)
           /\ variants_buffer' = variants_buffer \o MissingVariants(scope, keys)
    /\ spc' = IF target_lang = "Go" THEN "panic" ELSE "ok"
    /\ UNCHANGED <<selFrame, required, next_item, field_buffer, response_type_buffer,
                   err, decVars, enumVars, laterVars>>

\* The resolution of a selection on a union-typed field, which precedes
\* render_selection: the selection must select __typename, and its
\* fragments must target declared members of the union.
ResolveUnionSelection ==
    /\ op = "render_selection"
    /\ spc = "resolve"
    /\ LET sub == selection[1].sub
           union == FindField(scope, selection[1].name).type
       IN  IF TypenameMissing(sub)
           THEN err' = "MissingTypename" /\ spc' = "err"
           ELSE IF \E k \in SelectedVariantKeys(sub) : k \notin UnionVariants[union]
           THEN err' = "UnknownType" /\ spc' = "err"
           ELSE err' = err /\ spc' = "loop"
    /\ UNCHANGED <<selFrame, required, next_item, field_buffer, variants_buffer,
                   response_type_buffer, decVars, enumVars, laterVars>>

-----------------------------------------------------------------------------
(***************************************************************************)
(* Runs of the two renderers on a selection on a union                     *)
(***************************************************************************)

\* the items a selection on a union is built from: __typename and inline
\* fragments on declared members (twice on User), on an object, an
\* interface and a union that are not members, and on a name the schema
\* does not define
UnionItems ==
    { Typename,
      InlineFragment("User", << Field("firstName", "", <<>>) >>),
      InlineFragment("User", << Field("nick", "", <<>>) >>),
      InlineFragment("Organization", << Field("title", "", <<>>) >>),
      InlineFragment("Team", << Field("title", "", <<>>) >>),
      InlineFragment("Node", << Field("title", "", <<>>) >>),
      InlineFragment("Media", << Typename >>),
      InlineFragment("Widget", << Field("title", "", <<>>) >>) }

\* a fragment that selects a field its type does not have: union_variants
\* has the fields of each variant looked up itself
UnresolvedUnionItems ==
    { InlineFragment("Organization", << Field("nick", "", <<>>) >>) }

UnionInit ==
    /\ DecIdle
    /\ EnumIdle
    /\ LaterIdle
    /\ strategy \in DeprecationStrategy
    /\ required = {}
    /\ next_item = 0
    /\ field_buffer = <<>>
    /\ variants_buffer = <<>>
    /\ response_type_buffer = <<>>
    /\ err = ""
    /\ \/ \* the union-typed field `search` of Query, through render_selection
          /\ op = "render_selection"
          /\ target_lang = "Rust"
          /\ scope = "Query"
          /\ prefix = ""
          /\ \E sub \in SeqsUpTo(UnionItems, MaxUnionItems) :
                selection = << Field("search", "", sub) >>
          /\ spc = "resolve"
       \/ \* the same selections on the unions SearchResult and MyUnion,
          \* through GqlUnion::response_for_selection, as the tests call it
          /\ op = "response_for_selection"
          /\ target_lang \in TargetLang
          /\ scope \in {"SearchResult", "MyUnion"}
          /\ prefix = "Meow"
          /\ selection \in SeqsUpTo(UnionItems \cup UnresolvedUnionItems, MaxUnionItems)
          /\ spc = "typename"

UnionNext ==
    \/ ResolveUnionSelection
    \/ RenderSelectionStep
    \/ RenderSelectionReturn
    \/ UnionCheckTypename
    \/ UnionSelectVariants
    \/ UnionVariantStep
    \/ UnionExtendAndReturn

SpecUnion == UnionInit /\ [][UnionNext]_vars

-----------------------------------------------------------------------------
(***************************************************************************)
(* generate_enum_definitions (codegen.rs) and the code it emits            *)
(***************************************************************************)

MaxEnumValues == 3

\* Normalization::enum_variant: the identity, or the camel case of the name
enum_variant(norm, name) ==
    IF norm = "Rust"
    THEN CASE name = "in_" -> "In"
           [] name = "b_c" -> "BC"
           [] OTHER -> name
    ELSE name

\* codegen.rs:163-175: the identifier of the variant of one value
VariantName(norm, v) == enum_variant(norm, keyword_replace(v))

\* codegen.rs:162-191: the three lists spliced into the emitted code
EnumDefinition(norm, values) ==
    [variant_names |-> [i \in 1..Len(values) |-> VariantName(norm, values[i])],
     constructors  |-> [i \in 1..Len(values) |-> VariantName(norm, values[i])],
     variant_str   |-> values]

\* codegen.rs:197-200: `pub enum #name { #(#variant_names,)* Other(String), }`
\* is an enum the compiler accepts when no two of its variants have the
\* same identifier
EnumCompiles(def) ==
    /\ \A i, j \in 1..Len(def.variant_names) :
          def.variant_names[i] = def.variant_names[j] => i = j
    /\ \A i \in 1..Len(def.variant_names) : def.variant_names[i] # "Other"

Known(id) == [variant |-> id, carried |-> ""]

Other(s) == [variant |-> "Other", carried |-> s]

\* the first arm of a match a scrutinee selects, 0 for the catch-all
FirstArm(patterns, scrutinee) ==
    IF \E i \in 1..Len(patterns) : patterns[i] = scrutinee
    THEN CHOOSE i \in 1..Len(patterns) :
            /\ patterns[i] = scrutinee
            /\ \A j \in 1..(i - 1) : patterns[j] # scrutinee
    ELSE 0

\* codegen.rs:211-220: the emitted Deserialize
Deserialize(def, s) ==
    IF FirstArm(def.variant_str, s) # 0
    THEN Known(def.constructors[FirstArm(def.variant_str, s)])
    ELSE Other(s)

\* a seeded fault: a known variant is written as its identifier
SerializeIdentifier(def, v) ==
    IF v.variant = "Other" THEN v.carried ELSE v.variant

\* codegen.rs:202-209: the emitted Serialize
Serialize(def, v) ==
    IF FirstArm(def.constructors, v.variant) # 0
    THEN def.variant_str[FirstArm(def.constructors, v.variant)]
    ELSE v.carried

\* the values of the generated enum
EnumValuesOf(def, strings) ==
    {Known(def.variant_names[i]) : i \in 1..Len(def.variant_names)}
        \cup {Other(s) : s \in strings}

\* generate_enum_definitions emits the enum; the compiler takes it or not
GenerateEnum ==
    /\ epc = "generate"
    /\ enum_def' = EnumDefinition(normalization, enum_values)
    /\ epc' = IF EnumCompiles(enum_def') THEN "use" ELSE "rejected"
    /\ UNCHANGED <<enum_values, normalization, wire, value, serialized, decVars, selVars, laterVars>>

\* the program deserializes the string on the wire
DeserializeEnum ==
    /\ epc = "use"
    /\ value' = Deserialize(enum_def, wire)
    /\ epc' = "decoded"
    /\ UNCHANGED <<enum_values, normalization, enum_def, wire, serialized, decVars, selVars, laterVars>>

\* the program builds a value of the enum itself
ConstructEnum ==
    /\ epc = "use"
    /\ value' \in EnumValuesOf(enum_def, {wire})
    /\ epc' = "made"
    /\ UNCHANGED <<enum_values, normalization, enum_def, wire, serialized, decVars, selVars, laterVars>>

\* the program serializes the value it holds
SerializeEnum ==
    /\ epc \in {"decoded", "made"}
    /\ serialized' = Serialize(enum_def, value)
    /\ epc' = IF epc = "decoded" THEN "done" ELSE "written"
    /\ UNCHANGED <<enum_values, normalization, enum_def, wire, value, decVars, selVars, laterVars>>

\* the names an enum of the schema declares, among them Rust keywords, a
\* name a keyword is replaced by, and the name of the catch-all
EnumValueNames == {"A", "B", "in", "in_", "Other"}

\* strings a server sends: declared values and others
WireStrings == EnumValueNames \cup {"C", ""}

NoDuplicates(seq) == \A i, j \in 1..Len(seq) : seq[i] = seq[j] => i = j

EnumInit ==
    /\ DecIdle
    /\ SelIdle
    /\ LaterIdle
    /\ enum_values \in {vs \in SeqsUpTo(EnumValueNames, MaxEnumValues) : NoDuplicates(vs)}
    /\ normalization \in {"None", "Rust"}
    /\ enum_def = NoEnumDef
    /\ wire \in WireStrings
    /\ value = NoValue
    /\ serialized = ""
    /\ epc = "generate"

EnumNext ==
    \/ GenerateEnum
    \/ DeserializeEnum
    \/ ConstructEnum
    \/ SerializeEnum

SpecEnum == EnumInit /\ [][EnumNext]_vars

-----------------------------------------------------------------------------
(***************************************************************************)
(* generate_module_token_stream (lib.rs): the operations of a document,    *)
(* the selection of the operations to generate, the required flags of the  *)
(* schema and the modules of one call                                      *)
(***************************************************************************)

MaxOperations == 3

\* a literal of the query language: kind is "Int", "String", "Boolean",
\* "Float", "Enum", "Null", "Variable", "List" (items are the elements) or
\* "Object" (items are entries: kind "Entry", v the key, items the one value)
Val(k, v, items) == [kind |-> k, v |-> v, items |-> items]

\* default_value: None
NoDefault == Val("None", "", <<>>)

\* a variable definition: $n: t with the qualifiers q, outermost first, and
\* the default value d
Variable(n, t, q, d) == [name |-> n, type |-> t, quals |-> q, default |-> d]

\* an operation definition of the document; the name "" is an anonymous one
Operation(n, vs, sel) == [name |-> n, variables |-> vs, selection |-> sel]

\* the declared fields of the input types, in declaration order
InputField(n, t, q) == [name |-> n, type |-> t, quals |-> q]

InputFields(t) ==
    CASE t = "Filter" -> << InputField("range", "Range", <<>>),
                            InputField("tag", "Tag", <<"Required">>),
                            InputField("ids", "Int", <<"List">>) >>
      [] t = "Range"  -> << InputField("lo", "Int", <<"Required">>),
                            InputField("hi", "Int", <<>>),
                            InputField("since", "Date", <<>>) >>
      [] OTHER -> <<>>

\* the operations the explored documents are built from: one without
\* variables, one whose variables reach an enum and nested inputs and whose
\* selection spreads a fragment, one that selects a field Query does not have,
\* one with a custom scalar, and an anonymous one
OperationPool ==
    { Operation("A", <<>>, << Field("version", "", <<>>) >>),
      Operation("B", << Variable("t", "Tag", <<>>, NoDefault),
                        Variable("f", "Filter", <<"Required">>, NoDefault) >>,
                << Field("tag", "", <<>>), FragmentSpread("Head") >>),
      Operation("my_query", << Variable("c", "Color", <<"List">>, NoDefault) >>,
                << Field("title", "", <<>>) >>),
      Operation("D", << Variable("d", "Date", <<>>, NoDefault) >>,
                << Field("build", "", <<>>) >>),
      Operation("", <<>>, << Field("type", "", <<>>) >>) }

Documents ==
    { d \in SeqsUpTo(OperationPool, MaxOperations) :
        Len(d) >= 1 /\ \A i, j \in 1..Len(d) : i # j => d[i] # d[j] }

\* options.operation_name; "" is None
OperationNames == {"", "A", "B", "my_query", "MyQuery", "Z"}

CodegenMode == {"Cli", "Derive"}

\* Normalization::operation: the name as it is, or in camel case
NormOperation(norm, n) == IF norm = "Rust" THEN CamelCase(n) ELSE n

\* codegen.rs:15-24: the position of the first operation whose normalized
\* name is struct_name, 0 for None
select_operation(query, struct_name, norm) ==
    IF \E i \in 1..Len(query) : NormOperation(norm, query[i].name) = struct_name
    THEN CHOOSE i \in 1..Len(query) :
             /\ NormOperation(norm, query[i].name) = struct_name
             /\ \A j \in 1..(i - 1) : NormOperation(norm, query[j].name) # struct_name
    ELSE 0

\* lib.rs:75-79: options.operation_name.and_then(select_operation)
SelectedOperation(query, name, norm) ==
    IF name = "" THEN 0 ELSE select_operation(query, name, norm)

\* all_operations: every operation of the document, in document order
all_operations(query) == [i \in 1..Len(query) |-> i]

\* operations.rs:126-150: an Operation is built from a named definition only
Unnamed(query) == \E i \in 1..Len(query) : query[i].name = ""

\* lib.rs:192-228: the struct name and the names of the operations defined,
\* which the message joins with ", "
derive_operation_not_found_error_unlisted(struct_ident, query) ==
    [kind |-> "OperationNotFound", struct_name |-> struct_ident, defined |-> <<>>]

derive_operation_not_found_error(struct_ident, query) ==
    [kind |-> "OperationNotFound",
     struct_name |-> struct_ident,
     defined |-> [i \in 1..Len(query) |-> query[i].name]]

\* the definitions of the schema that carry a required flag
Flagged == { t \in SchemaTypes : TypeKind[t] \notin {"Object", "Interface"} }

\* lib.rs:136-149: the named type under the list and non-null wrappers
InnerName(v) == v.type

\* enm.is_required.set(true) on each of the names
MarkToggled(flags, names) ==
    [t \in DOMAIN flags |-> IF t \in names THEN ~flags[t] ELSE flags[t]]

Mark(flags, names) ==
    [t \in DOMAIN flags |-> IF t \in names THEN TRUE ELSE flags[t]]

\* lib.rs:134-150: the enums the variables of one definition name
VariableEnums(operation) ==
    { InnerName(operation.variables[i]) : i \in 1..Len(operation.variables) }
        \cap { t \in SchemaTypes : TypeKind[t] = "Enum" }

\* UsedTypes: the types the fields of input types reach
RECURSIVE InputClosure(_, _)
InputClosure(types, fuel) ==
    LET more == types \cup UNION { { InputFields(t)[i].type : i \in 1..Len(InputFields(t)) }
                                   : t \in types }
    IN  IF fuel = 0 \/ more = types THEN types ELSE InputClosure(more, fuel - 1)

\* UsedTypes: the types of the leaf fields a selection selects, spreads
\* left aside
RECURSIVE SelectionTypes(_, _)
SelectionTypes(sel, type_name) ==
    UNION { IF sel[i].kind = "Field" /\ HasField(type_name, sel[i].name)
            THEN LET f == FindField(type_name, sel[i].name)
                 IN  IF TypeKind[f.type] \in {"Scalar", "Enum"} THEN {f.type}
                     ELSE SelectionTypes(sel[i].sub, f.type)
            ELSE IF sel[i].kind = "InlineFragment" /\ sel[i].on \in SchemaTypes
                 THEN SelectionTypes(sel[i].sub, sel[i].on)
                 ELSE {}
          : i \in 1..Len(sel) }

\* UsedTypes: the fragments an operation spreads, directly or through other
\* fragments
UsedFragments(operation) ==
    ReachedFrom(SpreadsIn(operation.selection) \cap FragmentNames, Cardinality(FragmentNames))

\* codegen.rs:48-55: the aliases every module starts with
BuiltinAliases == {"Boolean", "Float", "Int", "ID"}

\* the scalars of the language itself, which are no definitions of the schema
DefaultScalars == BuiltinAliases \cup {"String"}

\* UsedTypes: the definitions reachable from the variables and the
\* selection of one operation
UsedTypes(operation) ==
    LET from_variables ==
            InputClosure({ InnerName(operation.variables[i]) :
                               i \in 1..Len(operation.variables) } \cap SchemaTypes, 4)
        frags == UsedFragments(operation)
        from_selection ==
            SelectionTypes(operation.selection, "Query")
              \cup UNION { SelectionTypes(FragmentSelection(n), FragmentOn(n)) : n \in frags }
        types == from_variables \cup from_selection
    IN  [scalars   |-> { t \in types : TypeKind[t] = "Scalar" } \ DefaultScalars,
         enums     |-> { t \in types : TypeKind[t] = "Enum" },
         inputs    |-> { t \in types : TypeKind[t] = "Input" },
         fragments |-> frags]

\* the schema definitions among the used types
UsedDefinitions(operation) ==
    UsedTypes(operation).scalars \cup UsedTypes(operation).enums
        \cup UsedTypes(operation).inputs

\* codegen.rs:133-141: one alias per used scalar
generate_scalar_definitions(used, flags) == used.scalars

\* codegen.rs:150-223: one enum per used enum
generate_enum_definitions_required(used, flags) ==
    { t \in DOMAIN flags : TypeKind[t] = "Enum" /\ flags[t] }

generate_enum_definitions(used, flags) == used.enums

\* codegen.rs:480-489: one struct per used input
generate_input_object_definitions(used, flags) == used.inputs

\* codegen.rs:491-531: one definition per used fragment
generate_fragment_definitions(used, flags) == used.fragments

\* codegen.rs:27-78 response_for_query
response_for_query(operation, flags) ==
    [prelude   |-> BuiltinAliases,
     scalars   |-> generate_scalar_definitions(UsedTypes(operation), flags),
     enums     |-> generate_enum_definitions(UsedTypes(operation), flags),
     inputs    |-> generate_input_object_definitions(UsedTypes(operation), flags),
     fragments |-> generate_fragment_definitions(UsedTypes(operation), flags)]

\* generated_module.rs:19-26: the error of the response fields of the root
\* selection, "" for Ok
build_impls(lang, operation, strat) ==
    ResponseFields(lang, operation.selection, 1, "Query", "", strat).err

\* generated_module.rs:29-130: the module of one operation
GeneratedModule(operation, flags) ==
    [name |-> SnakeCase(operation.name), defs |-> response_for_query(operation, flags)]

\* lib.rs:163-164: `?` returns the error and drops the modules built so far
PushModuleKeeping(ms, error, module) ==
    IF error # "" THEN ms ELSE Append(ms, module)

PushModule(ms, error, module) ==
    IF error # "" THEN <<>> ELSE Append(ms, module)

modFrame == <<document, mode, operation_name>>

\* lib.rs:73-90
SelectOperations ==
    /\ gpc = "select"
    /\ \E found \in {SelectedOperation(document, operation_name, normalization)} :
          CASE found # 0 ->
                  /\ operations' = <<found>>
                  /\ gpc' = "mark"
                  /\ gerr' = gerr
            [] found = 0 /\ Unnamed(document) ->
                  /\ operations' = operations
                  /\ gpc' = "panic"
                  /\ gerr' = gerr
            [] found = 0 /\ ~Unnamed(document) /\ mode = "Cli" ->
                  /\ operations' = all_operations(document)
                  /\ gpc' = "mark"
                  /\ gerr' = gerr
            [] found = 0 /\ ~Unnamed(document) /\ mode = "Derive" ->
                  /\ operations' = operations
                  /\ gpc' = "err"
                  /\ gerr' = derive_operation_not_found_error(operation_name, document)
    /\ UNCHANGED <<modFrame, is_required, next_def, next_op, modules,
                   notMod>>

\* lib.rs:123-151, one definition of the document per step
MarkVariables ==
    /\ gpc = "mark"
    /\ next_def < Len(document)
    /\ is_required' = Mark(is_required, VariableEnums(document[next_def + 1]))
    /\ next_def' = next_def + 1
    /\ gpc' = IF next_def + 1 = Len(document) THEN "generate" ELSE "mark"
    /\ UNCHANGED <<modFrame, operations, next_op, modules, gerr,
                   notMod>>

\* lib.rs:155-165, one operation per step.  The pass over the operation
\* marks what it uses; a pass that fails has marked some of it.
GenerateModule ==
    /\ gpc = "generate"
    /\ next_op < Len(operations)
    /\ \E operation \in {document[operations[next_op + 1]]} :
       \E error \in {build_impls(target_lang, operation, strategy)} :
       \E marked \in SUBSET UsedDefinitions(operation) :
          /\ error = "" => marked = UsedDefinitions(operation)
          /\ is_required' = Mark(is_required, marked)
          /\ modules' = PushModule(modules, error,
                                   GeneratedModule(operation, is_required'))
          /\ IF error # ""
             THEN /\ gpc' = "err"
                  /\ gerr' = [kind |-> error, struct_name |-> "", defined |-> <<>>]
                  /\ next_op' = next_op
             ELSE /\ next_op' = next_op + 1
                  /\ UNCHANGED <<gpc, gerr>>
    /\ UNCHANGED <<modFrame, operations, next_def, notMod>>

\* lib.rs:167-169
ReturnModules ==
    /\ gpc = "generate"
    /\ next_op = Len(operations)
    /\ gpc' = "ok"
    /\ UNCHANGED <<modFrame, operations, is_required, next_def, next_op, modules, gerr,
                   notMod>>

ModuleInit ==
    /\ DecIdle
    /\ SelIdle
    /\ EnumUnused
    /\ CacheIdle
    /\ LitIdle
    /\ TailIdle
    /\ normalization \in {"None", "Rust"}
    /\ document \in Documents
    /\ mode \in CodegenMode
    /\ operation_name \in OperationNames
    /\ operations = <<>>
    /\ is_required = [t \in Flagged |-> FALSE]
    /\ next_def = 0
    /\ next_op = 0
    /\ modules = <<>>
    /\ gpc = "select"
    /\ gerr = NoError

ModuleNext ==
    \/ SelectOperations
    \/ MarkVariables
    \/ GenerateModule
    \/ ReturnModules

SpecModule == ModuleInit /\ [][ModuleNext]_vars

-----------------------------------------------------------------------------
(***************************************************************************)
(* The two process-wide caches (lib.rs:43-49) under concurrent calls of    *)
(* generate_module_token_stream                                            *)
(***************************************************************************)

MaxCalls == 3
MaxEdits == 1

\* the threads of the process that call generate_module_token_stream
Threads == {"t1", "t2"}

QueryPaths == {"a.graphql", "b.graphql"}

SchemaPaths == {"schema.graphql"}

\* what a file can hold: nothing (the file does not exist), a text that does
\* not parse, and two texts that do
Contents == {"missing", "bad", "v1", "v2"}

\* what the files hold when the process starts
InitialContents == {"missing", "v1"}

\* Mutex::lock returns once the mutex is free
CanAcquireHeld(lock) == TRUE

CanAcquire(lock) == lock = ""

\* the MutexGuard is dropped: the mutex is free again
UnlockLeaked(lock) == lock

Unlock(lock) == ""

\* hash_map::Entry: Occupied when the map has the key
IsOccupiedNever(cache, path) == FALSE

IsOccupied(cache, path) == path \in DOMAIN cache

\* VacantEntry::insert
InsertDropped(cache, path, content) == cache

Insert(cache, path, content) ==
    [p \in DOMAIN cache \cup {path} |-> IF p = path THEN content ELSE cache[p]]

\* lib.rs:172-188: read_file fails when the file cannot be opened
ReadFailsNever(content) == FALSE

ReadFails(content) == content = "missing"

\* graphql_parser::parse_query fails on a text that is no query document
ParseFails(content) == content = "bad"

\* the arguments and locals of the call of thread t after a step
Locals(t, pc, qp, sp, occ, qs, ss) ==
    /\ tpc' = [tpc EXCEPT ![t] = pc]
    /\ query_path' = [query_path EXCEPT ![t] = qp]
    /\ schema_path' = [schema_path EXCEPT ![t] = sp]
    /\ occupied' = [occupied EXCEPT ![t] = occ]
    /\ query_string' = [query_string EXCEPT ![t] = qs]
    /\ schema_string' = [schema_string EXCEPT ![t] = ss]

\* the call of thread t moves on to the position pc
Goto(t, pc) ==
    Locals(t, pc, query_path[t], schema_path[t], occupied[t], query_string[t],
           schema_string[t])

\* the call of thread t returns: its arguments and locals are dropped
Return(t) == Locals(t, "idle", "", "", FALSE, "", "")

\* a thread enters generate_module_token_stream
Call ==
    /\ ncalls < MaxCalls
    /\ \E t \in Threads, q \in QueryPaths, s \in SchemaPaths :
          /\ tpc[t] = "idle"
          /\ Locals(t, "query_lock", q, s, FALSE, "", "")
    /\ ncalls' = ncalls + 1
    /\ UNCHANGED <<files, query_cache, schema_cache, query_lock, schema_lock, nedits,
                   notCache>>

\* lib.rs:61: QUERY_CACHE.lock()
QueryLock ==
    /\ \E t \in Threads :
          /\ tpc[t] = "query_lock"
          /\ CanAcquire(query_lock)
          /\ query_lock' = t
          /\ Goto(t, "query_entry")
    /\ UNCHANGED <<files, query_cache, schema_cache, schema_lock, ncalls, nedits,
                   notCache>>

\* lib.rs:62-64: the match on lock.entry(query_path)
QueryEntry ==
    /\ \E t \in Threads :
          /\ tpc[t] = "query_entry"
          /\ IF IsOccupied(query_cache, query_path[t])
             THEN Locals(t, "query_unlock", query_path[t], schema_path[t], TRUE,
                         query_cache[query_path[t]], schema_string[t])
             ELSE Goto(t, "query_read")
    /\ UNCHANGED <<files, query_cache, schema_cache, query_lock, schema_lock, ncalls,
                   nedits, notCache>>

\* lib.rs:65-66: read_file and parse_query; `?` returns the error and the
\* guard is dropped
QueryRead ==
    /\ \E t \in Threads :
          /\ tpc[t] = "query_read"
          /\ IF ReadFails(files[query_path[t]]) \/ ParseFails(files[query_path[t]])
             THEN /\ Return(t)
                  /\ query_lock' = Unlock(query_lock)
             ELSE /\ Locals(t, "query_insert", query_path[t], schema_path[t], FALSE,
                            files[query_path[t]], schema_string[t])
                  /\ UNCHANGED query_lock
    /\ UNCHANGED <<files, query_cache, schema_cache, schema_lock, ncalls, nedits,
                   notCache>>

\* lib.rs:68: v.insert((query_string, query)).clone()
QueryInsert ==
    /\ \E t \in Threads :
          /\ tpc[t] = "query_insert"
          /\ query_cache' = Insert(query_cache, query_path[t], query_string[t])
          /\ Goto(t, "query_unlock")
    /\ UNCHANGED <<files, schema_cache, query_lock, schema_lock, ncalls, nedits,
                   notCache>>

\* lib.rs:71: the block ends and the guard is dropped
QueryUnlock ==
    /\ \E t \in Threads :
          /\ tpc[t] = "query_unlock"
          /\ query_lock' = Unlock(query_lock)
          /\ Goto(t, "select")
    /\ UNCHANGED <<files, query_cache, schema_cache, schema_lock, ncalls, nedits,
                   notCache>>

\* lib.rs:73-90: the operations are selected, or the call returns the error
\* of derive mode
SelectBetweenCaches ==
    /\ \E t \in Threads, found \in BOOLEAN :
          /\ tpc[t] = "select"
          /\ IF found THEN Goto(t, "schema_lock") ELSE Return(t)
    /\ UNCHANGED <<files, query_cache, schema_cache, query_lock, schema_lock, ncalls,
                   nedits, notCache>>

\* lib.rs:99: SCHEMA_CACHE.lock()
SchemaLock ==
    /\ \E t \in Threads :
          /\ tpc[t] = "schema_lock"
          /\ CanAcquire(schema_lock)
          /\ schema_lock' = t
          /\ Goto(t, "schema_entry")
    /\ UNCHANGED <<files, query_cache, schema_cache, query_lock, ncalls, nedits,
                   notCache>>

\* lib.rs:100-102: the match on lock.entry(schema_path)
SchemaEntry ==
    /\ \E t \in Threads :
          /\ tpc[t] = "schema_entry"
          /\ IF IsOccupied(schema_cache, schema_path[t])
             THEN Locals(t, "schema_unlock", query_path[t], schema_path[t], TRUE,
                         query_string[t], schema_cache[schema_path[t]])
             ELSE Locals(t, "schema_read", query_path[t], schema_path[t], FALSE,
                         query_string[t], schema_string[t])
    /\ UNCHANGED <<files, query_cache, schema_cache, query_lock, schema_lock, ncalls,
                   nedits, notCache>>

\* lib.rs:103: read_file; the text is not parsed before it is cached
SchemaRead ==
    /\ \E t \in Threads :
          /\ tpc[t] = "schema_read"
          /\ IF ReadFails(files[schema_path[t]])
             THEN /\ Return(t)
                  /\ schema_lock' = Unlock(schema_lock)
             ELSE /\ Locals(t, "schema_insert", query_path[t], schema_path[t], FALSE,
                            query_string[t], files[schema_path[t]])
                  /\ UNCHANGED schema_lock
    /\ UNCHANGED <<files, query_cache, schema_cache, query_lock, ncalls, nedits,
                   notCache>>

\* lib.rs:104: v.insert(schema_string).to_string()
SchemaInsert ==
    /\ \E t \in Threads :
          /\ tpc[t] = "schema_insert"
          /\ schema_cache' = Insert(schema_cache, schema_path[t], schema_string[t])
          /\ Goto(t, "schema_unlock")
    /\ UNCHANGED <<files, query_cache, query_lock, schema_lock, ncalls, nedits,
                   notCache>>

\* lib.rs:107: the block ends and the guard is dropped
SchemaUnlock ==
    /\ \E t \in Threads :
          /\ tpc[t] = "schema_unlock"
          /\ schema_lock' = Unlock(schema_lock)
          /\ Goto(t, "generate")
    /\ UNCHANGED <<files, query_cache, schema_cache, query_lock, ncalls, nedits,
                   notCache>>

\* lib.rs:109-170: the rest of the call, which touches neither cache
FinishCall ==
    /\ \E t \in Threads :
          /\ tpc[t] = "generate"
          /\ Return(t)
    /\ UNCHANGED <<files, query_cache, schema_cache, query_lock, schema_lock, ncalls,
                   nedits, notCache>>

\* a file of the project is written, created or deleted between two steps
ChangeFile ==
    /\ nedits < MaxEdits
    /\ \E p \in QueryPaths \cup SchemaPaths, c \in Contents :
          /\ c # files[p]
          /\ files' = [files EXCEPT ![p] = c]
    /\ nedits' = nedits + 1
    /\ UNCHANGED <<query_cache, schema_cache, query_lock, schema_lock, tpc, query_path,
                   schema_path, occupied, query_string, schema_string, ncalls, notCache>>

CacheInit ==
    /\ DecIdle
    /\ SelIdle
    /\ EnumIdle
    /\ ModIdle
    /\ LitIdle
    /\ TailIdle
    /\ files \in [QueryPaths \cup SchemaPaths -> InitialContents]
    /\ query_cache = <<>>
    /\ schema_cache = <<>>
    /\ query_lock = ""
    /\ schema_lock = ""
    /\ tpc = [t \in Threads |-> "idle"]
    /\ query_path = [t \in Threads |-> ""]
    /\ schema_path = [t \in Threads |-> ""]
    /\ occupied = [t \in Threads |-> FALSE]
    /\ query_string = [t \in Threads |-> ""]
    /\ schema_string = [t \in Threads |-> ""]
    /\ ncalls = 0
    /\ nedits = 0

CacheNext ==
    \/ Call
    \/ QueryLock
    \/ QueryEntry
    \/ QueryRead
    \/ QueryInsert
    \/ QueryUnlock
    \/ SelectBetweenCaches
    \/ SchemaLock
    \/ SchemaEntry
    \/ SchemaRead
    \/ SchemaInsert
    \/ SchemaUnlock
    \/ FinishCall
    \/ ChangeFile

SpecCache == CacheInit /\ [][CacheNext]_vars

-----------------------------------------------------------------------------
(***************************************************************************)
(* The Variables part of an operation: the default-value constructors of   *)
(* expand_variables (operations.rs, variables.rs) and of                   *)
(* generate_variables_struct (codegen.rs)                                  *)
(***************************************************************************)

MaxVariables == 2

\* FieldType::is_optional: the outermost qualifier is not Required
IsOptional(quals) == quals = <<>> \/ quals[1] # "Required"

\* the qualifiers of the elements of a list type
ElementQuals(quals) ==
    LET q == IF quals # <<>> /\ quals[1] = "Required" THEN Tail(quals) ELSE quals
    IN  IF q # <<>> /\ q[1] = "List" THEN Tail(q) ELSE q

\* BTreeMap::get on the entries of an object literal
HasEntry(entries, n) == \E i \in 1..Len(entries) : entries[i].v = n

GetEntry(entries, n) ==
    entries[CHOOSE i \in 1..Len(entries) : entries[i].v = n].items[1]

Entry(n, val) == Val("Entry", n, <<val>>)

\* variables.rs:156-159: the value of a field the literal does not give
Absent(lang) == Val(IF lang = "Rust" THEN "None" ELSE "nil", "", <<>>)

\* variables.rs:116-123: the present wrapper
Present(lang, inner) == Val(IF lang = "Rust" THEN "Some" ELSE "*", "", <<inner>>)

RECURSIVE graphql_parser_value_to_literal(_, _, _, _, _)
RECURSIVE render_object_literal(_, _, _)
RECURSIVE render_object_literal_present_only(_, _, _)

\* variables.rs:126-172
render_object_literal_present_only(lang, object, type_name) ==
    IF type_name \notin SchemaTypes \/ TypeKind[type_name] # "Input"
    THEN Val("panic", "unknown input type", <<>>)
    ELSE LET given == SelectSeq(InputFields(type_name), LAMBDA f : HasEntry(object, f.name))
         IN  Val("struct", type_name,
                 [i \in 1..Len(given) |->
                     Val("field", given[i].name,
                         << graphql_parser_value_to_literal(lang,
                                GetEntry(object, given[i].name),
                                given[i].type, given[i].quals,
                                IsOptional(given[i].quals)) >>)])

render_object_literal(lang, object, type_name) ==
    IF type_name \notin SchemaTypes \/ TypeKind[type_name] # "Input"
    THEN Val("panic", "unknown input type", <<>>)
    ELSE LET fields == InputFields(type_name)
         IN  Val("struct", type_name,
                 [i \in 1..Len(fields) |->
                     Val("field", fields[i].name,
                         IF HasEntry(object, fields[i].name)
                         THEN << graphql_parser_value_to_literal(lang,
                                     GetEntry(object, fields[i].name),
                                     fields[i].type, fields[i].quals,
                                     IsOptional(fields[i].quals)) >>
                         ELSE << Absent(lang) >>)])

\* variables.rs:71-124
graphql_parser_value_to_literal(lang, val, type_name, quals, is_optional) ==
    LET inner ==
            CASE val.kind \in {"Boolean", "Float", "Int", "Enum"} -> Val("lit", val.v, <<>>)
              [] val.kind = "String" ->
                    Val(IF lang = "Rust" THEN "to_string" ELSE "string", val.v, <<>>)
              [] val.kind = "Variable" -> Val("panic", "variable in variable", <<>>)
              [] val.kind = "Null" -> Val("panic", "null as default value", <<>>)
              [] val.kind = "List" ->
                    Val("vec", "",
                        [i \in 1..Len(val.items) |->
                            graphql_parser_value_to_literal(lang, val.items[i], type_name,
                                                            quals, FALSE)])
              [] val.kind = "Object" -> render_object_literal(lang, val.items, type_name)
    IN  IF is_optional THEN Present(lang, inner) ELSE inner

\* a panic anywhere in the compilation of a literal ends the call
RECURSIVE Panics(_)
Panics(lit) ==
    lit.kind = "panic" \/ \E i \in 1..Len(lit.items) : Panics(lit.items[i])

Constructor(n, body) == [name |-> n, body |-> body]

\* variables.rs:14-56: the constructor of one variable, none without a default
generate_default_value_constructor(lang, variable) ==
    IF variable.default = NoDefault THEN <<>>
    ELSE << Constructor(IF lang = "Rust" THEN "default_" \o variable.name
                                         ELSE "Default" \o variable.name,
                        graphql_parser_value_to_literal(lang, variable.default,
                            variable.type, variable.quals, IsOptional(variable.quals))) >>

\* codegen.rs:94-105: the method of one variable
variable_default(variable) ==
    << Constructor("default_" \o variable.name, Val("todo!", "", <<>>)) >>

IntValue(i) == Val("Int", i, <<>>)

\* the variable definitions the explored operations are built from
VariablePool ==
    { Variable("limit", "Int", <<>>, IntValue("10")),
      Variable("count", "Int", <<"Required">>, IntValue("5")),
      Variable("name", "String", <<>>, NoDefault),
      Variable("title", "String", <<"Required">>, Val("String", "x", <<>>)),
      Variable("ids", "Int", <<"List">>, Val("List", "", << IntValue("1"), IntValue("2") >>)),
      Variable("keys", "Int", <<"Required", "List", "Required">>,
               Val("List", "", << IntValue("7") >>)),
      Variable("tag", "Tag", <<"Required">>, Val("Enum", "RED", <<>>)),
      Variable("f", "Filter", <<>>,
               Val("Object", "", << Entry("ids", Val("List", "", << IntValue("3") >>)),
                                    Entry("tag", Val("Enum", "RED", <<>>)) >>)),
      Variable("g", "Filter", <<"Required">>,
               Val("Object", "", << Entry("other", IntValue("0")),
                                    Entry("range", Val("Object", "", << Entry("lo", IntValue("1")) >>)),
                                    Entry("tag", Val("Enum", "BLUE", <<>>)) >>)),
      Variable("w", "Widget", <<>>, Val("Object", "", <<>>)),
      Variable("n", "Int", <<>>, Val("Null", "", <<>>)),
      Variable("v", "Int", <<>>, Val("Variable", "limit", <<>>)) }

VariableLists ==
    { vs \in SeqsUpTo(VariablePool, MaxVariables) :
        \A i, j \in 1..Len(vs) : i # j => vs[i].name # vs[j].name }

\* operations.rs:100-102: the iterator yields one variable to
\* generate_default_value_constructor
ExpandVariable ==
    /\ generator = "expand_variables"
    /\ vpc = "loop"
    /\ next_var < Len(variables)
    /\ \E made \in {generate_default_value_constructor(target_lang, variables[next_var + 1])} :
          IF made # <<>> /\ Panics(made[1].body)
          THEN /\ vpc' = "panic"
               /\ UNCHANGED constructors
          ELSE /\ constructors' = constructors \o made
               /\ UNCHANGED vpc
    /\ next_var' = next_var + 1
    /\ UNCHANGED <<generator, variables, notLit>>

\* operations.rs:54-68, 104-122: the Variables part is returned
ExpandVariablesReturn ==
    /\ generator = "expand_variables"
    /\ vpc = "loop"
    /\ next_var = Len(variables)
    /\ vpc' = "done"
    /\ UNCHANGED <<generator, variables, next_var, constructors, notLit>>

\* codegen.rs:94-105: the iterator yields one variable to the closure
VariableDefault ==
    /\ generator = "generate_variables_struct"
    /\ vpc = "loop"
    /\ next_var < Len(variables)
    /\ constructors' = constructors \o variable_default(variables[next_var + 1])
    /\ next_var' = next_var + 1
    /\ UNCHANGED <<generator, variables, vpc, notLit>>

\* codegen.rs:87-92, 107-119: the Variables part is returned
VariablesStructReturn ==
    /\ generator = "generate_variables_struct"
    /\ vpc = "loop"
    /\ next_var = Len(variables)
    /\ vpc' = "done"
    /\ UNCHANGED <<generator, variables, next_var, constructors, notLit>>

VariablesInit ==
    /\ DecIdle
    /\ SelUnused
    /\ EnumIdle
    /\ ModIdle
    /\ CacheIdle
    /\ TailIdle
    /\ \/ generator = "expand_variables" /\ target_lang \in TargetLang
       \/ generator = "generate_variables_struct" /\ target_lang = "Rust"
    /\ variables \in VariableLists
    /\ next_var = 0
    /\ constructors = <<>>
    /\ vpc = "loop"

VariablesNext ==
    \/ ExpandVariable
    \/ ExpandVariablesReturn
    \/ VariableDefault
    \/ VariablesStructReturn

SpecVariables == VariablesInit /\ [][VariablesNext]_vars

-----------------------------------------------------------------------------
(***************************************************************************)
(* field_impls_for_selection (shared.rs:128-156): the structs of the       *)
(* nested selections of a selection and their names                        *)
(***************************************************************************)

\* a generated struct: its name and the path of response keys that leads to
\* the selection it is generated for
NamedStruct(n, path) == [name |-> n, path |-> path]

NoImpls == [err |-> "", structs |-> <<>>]

\* shared.rs:148: the prefix handed to maybe_expand_field, which names the
\* struct of the nested selection
NestedPrefix(pfx, alias) == CamelCase(pfx) \o CamelCase(alias)

\* shared.rs:135-155 on the items from the i-th on: the error, or the structs
\* of the nested selections in the order they are expanded.  An object or
\* interface field expands to its own struct and, through
\* response_for_selection, to field_impls_for_selection on its subselection
\* with the same prefix.
RECURSIVE field_impls_for_selection(_, _, _, _, _)
FieldImplsItem(type_name, item, pfx, path) ==
    IF item.kind # "Field" THEN NoImpls
    ELSE IF ~HasField(type_name, item.name)
    THEN [err |-> "could not find field", structs |-> <<>>]
    ELSE IF TypeKind[FindField(type_name, item.name).type] \notin {"Object", "Interface"}
    THEN NoImpls
    ELSE LET alias == IF item.alias # "" THEN item.alias ELSE item.name
         IN  \* the struct of the field, after the structs nested in it
             [err |-> field_impls_for_selection(FindField(type_name, item.name).type,
                          item.sub, 1, NestedPrefix(pfx, alias), Append(path, alias)).err,
              structs |->
                  field_impls_for_selection(FindField(type_name, item.name).type,
                      item.sub, 1, NestedPrefix(pfx, alias), Append(path, alias)).structs
                    \o << NamedStruct(NestedPrefix(pfx, alias), Append(path, alias)) >>]

field_impls_for_selection(type_name, sel, i, pfx, path) ==
    IF i > Len(sel) THEN NoImpls
    ELSE LET head == FieldImplsItem(type_name, sel[i], pfx, path)
         IN  IF head.err # "" THEN [err |-> head.err, structs |-> <<>>]
             ELSE LET rest == field_impls_for_selection(type_name, sel, i + 1, pfx, path)
                  IN  IF rest.err # "" THEN rest
                      ELSE [err |-> "", structs |-> head.structs \o rest.structs]

\* the items the selections on Query are built from: object fields selected
\* plainly, under aliases and with nested object fields, a scalar field, a
\* field Query does not have, __typename and a fragment spread
NamedItems ==
    { Field("user", "", << Field("firstName", "", <<>>) >>),
      Field("user", "", << Field("friend", "", << Field("nick", "", <<>>) >>) >>),
      Field("user", "userFriend", << Field("firstName", "", <<>>) >>),
      Field("user", "user_friend", << Field("nick", "", <<>>) >>),
      Field("user", "me", << Field("friend", "", << Field("friend", "", <<>>) >>),
                             Field("friend", "other", << Field("nick", "", <<>>) >>) >>),
      Field("legacy", "", << Field("firstName", "", <<>>) >>),
      Field("version", "", <<>>),
      Field("title", "", <<>>),
      Typename,
      FragmentSpread("Head") }

ResponseKey(item) == IF item.alias # "" THEN item.alias ELSE item.name

\* the selections whose fields have different response keys
NamedSelections ==
    { sel \in SeqsUpTo(NamedItems, MaxItems) :
        \A i, j \in 1..Len(sel) :
            (i # j /\ sel[i].kind = "Field" /\ sel[j].kind = "Field")
                => ResponseKey(sel[i]) # ResponseKey(sel[j]) }

\* the iterator yields one item to the closure
FieldImplsStep ==
    /\ op = "field_impls_for_selection"
    /\ spc = "loop"
    /\ next_item < Len(selection)
    /\ \E out \in {FieldImplsItem(scope, selection[next_item + 1], prefix, <<>>)} :
          IF out.err # ""
          THEN /\ err' = out.err
               /\ spc' = "err"
               /\ response_type_buffer' = <<>>
          ELSE /\ response_type_buffer' = response_type_buffer \o out.structs
               /\ UNCHANGED <<err, spc>>
    /\ next_item' = next_item + 1
    /\ UNCHANGED <<op, strategy, target_lang, selection, prefix, scope, required,
                   field_buffer, variants_buffer, decVars, enumVars, laterVars>>

\* the iterator is exhausted: collect() returns Ok
FieldImplsReturn ==
    /\ op = "field_impls_for_selection"
    /\ spc = "loop"
    /\ next_item = Len(selection)
    /\ spc' = "ok"
    /\ UNCHANGED <<op, strategy, target_lang, selection, prefix, scope, required,
                   next_item, field_buffer, variants_buffer, response_type_buffer,
                   err, decVars, enumVars, laterVars>>

NamesInit ==
    /\ DecIdle
    /\ EnumIdle
    /\ LaterIdle
    /\ op = "field_impls_for_selection"
    /\ strategy \in DeprecationStrategy
    /\ target_lang \in TargetLang
    /\ scope = "Query"
    /\ prefix \in {"", "MyQuery"}
    /\ selection \in NamedSelections
    /\ required = {}
    /\ next_item = 0
    /\ field_buffer = <<>>
    /\ variants_buffer = <<>>
    /\ response_type_buffer = <<>>
    /\ spc = "loop"
    /\ err = ""

NamesNext == FieldImplsStep \/ FieldImplsReturn

SpecNames == NamesInit /\ [][NamesNext]_vars

-----------------------------------------------------------------------------
(***************************************************************************)
(* Operation::from (operations.rs:126-150): an Operation built from one    *)
(* parsed operation definition.  A parsed type is NamedType(name),         *)
(* ListType(of) or NonNullType(of), as the parser nests them.              *)
(***************************************************************************)

NamedType(n) == [tag |-> "NamedType", name |-> n]
ListType(t) == [tag |-> "ListType", of |-> t]
NonNullType(t) == [tag |-> "NonNullType", of |-> t]

\* graphql_parser::query::VariableDefinition
VariableDefinition(n, t, d) == [name |-> n, var_type |-> t, default_value |-> d]

\* graphql_parser::query::OperationDefinition; the name "" is None, and a
\* SelectionSet has neither name nor variables
Definition(k, n, vs, sel) ==
    [kind |-> k, name |-> n, variable_definitions |-> vs, selection_set |-> sel]

OperationKinds == {"Query", "Mutation", "Subscription", "SelectionSet"}

\* FieldType::from: the named type and its qualifiers, outermost first
RECURSIVE TypeQualifiersOf(_)
TypeQualifiersOf(t) ==
    CASE t.tag = "NamedType"   -> <<>>
      [] t.tag = "ListType"    -> <<"List">> \o TypeQualifiersOf(t.of)
      [] t.tag = "NonNullType" -> <<"Required">> \o TypeQualifiersOf(t.of)

RECURSIVE TypeNameOf(_)
TypeNameOf(t) == IF t.tag = "NamedType" THEN t.name ELSE TypeNameOf(t.of)

\* variables.rs:59-69
VariableFrom(def) ==
    Variable(def.name, TypeNameOf(def.var_type), TypeQualifiersOf(def.var_type),
             def.default_value)

\* the arm of the match: operations.rs:131, 137, 143
OperationType(kind) == kind

\* Iterator::collect into a Vec: each converted variable goes to the end
CollectFront(vec, v) == <<v>> \o vec

Collect(vec, v) == Append(vec, v)

\* the definitions the explored conversions start from
VariableDefinitionPool ==
    { VariableDefinition("first", NamedType("Int"), NoDefault),
      VariableDefinition("ids", NonNullType(ListType(NamedType("Int"))),
                         Val("List", "", << Val("Int", "1", <<>>) >>)),
      VariableDefinition("tag", ListType(NonNullType(NamedType("Tag"))), NoDefault) }

VariableDefinitionLists ==
    { l \in SeqsUpTo(VariableDefinitionPool, MaxVariables) :
        \A i, j \in 1..Len(l) : i # j => l[i] # l[j] }

DefinitionNames == {"", "A", "my_query"}

SelectionSets == { << Field("version", "", <<>>) >>,
                   << Field("tag", "", <<>>), FragmentSpread("Head") >> }

Definitions ==
    { Definition(k, n, vs, sel) :
        k \in OperationKinds \ {"SelectionSet"}, n \in DefinitionNames,
        vs \in VariableDefinitionLists, sel \in SelectionSets }
    \cup { Definition("SelectionSet", "", <<>>, sel) : sel \in SelectionSets }

\* operations.rs:128-130, 136, 142, 147: the match on the definition and the
\* first field of the struct expression, the name
MatchDefinition ==
    /\ opc = "match"
    /\ opc' = CASE definition.kind = "SelectionSet" -> "panic"
                [] definition.name = "" -> "panic"
                [] OTHER -> "collect"
    /\ UNCHANGED <<definition, converted, built, notOp>>

\* operations.rs:132, 138, 144: one variable definition per step
ConvertVariable ==
    /\ opc = "collect"
    /\ Len(converted) < Len(definition.variable_definitions)
    /\ converted' = Collect(converted,
           VariableFrom(definition.variable_definitions[Len(converted) + 1]))
    /\ UNCHANGED <<definition, built, opc, notOp>>

\* operations.rs:129-146: the Operation returned; the selection set is
\* carried over item by item
ReturnOperation ==
    /\ opc = "collect"
    /\ Len(converted) = Len(definition.variable_definitions)
    /\ built' = [name |-> definition.name,
                 operation_type |-> OperationType(definition.kind),
                 variables |-> converted,
                 selection |-> definition.selection_set]
    /\ opc' = "done"
    /\ UNCHANGED <<definition, converted, notOp>>

OperationInit ==
    /\ DecIdle
    /\ SelIdle
    /\ EnumIdle
    /\ ModIdle
    /\ CacheIdle
    /\ LitIdle
    /\ KwIdle
    /\ definition \in Definitions
    /\ converted = <<>>
    /\ built = NoOperation
    /\ opc = "match"

OperationNext ==
    \/ MatchDefinition
    \/ ConvertVariable
    \/ ReturnOperation

SpecOperation == OperationInit /\ [][OperationNext]_vars

-----------------------------------------------------------------------------
(***************************************************************************)
(* Calls of keyword_replace (shared.rs:76-81) on its own.  RUST_KEYWORDS   *)
(* is not sorted, so what binary_search returns depends on the loop the    *)
(* standard library of the toolchain runs: the halving loop above (Rust up *)
(* to 1.51, and 1.82 on), or the bisection with an early return on Equal   *)
(* (Rust 1.52 to 1.81).                                                    *)
(***************************************************************************)

StdImpls == {"halving", "bisect"}

\* slice::binary_search_by of Rust 1.52 to 1.81; left and right are 0-based
\* as in the source, the list is indexed from 1
RECURSIVE BisectLoop(_, _, _, _)
BisectLoop(list, needle, left, right) ==
    IF left < right
    THEN LET mid == left + (right - left) \div 2
             cmp == StrCmp(list[mid + 1], needle)
         IN  CASE cmp = "Less"    -> BisectLoop(list, needle, mid + 1, right)
               [] cmp = "Greater" -> BisectLoop(list, needle, left, mid)
               [] cmp = "Equal"   -> [found |-> TRUE, index |-> mid + 1]
    ELSE [found |-> FALSE, index |-> left]

\* RUST_KEYWORDS.binary_search(&needle) under the standard library `impl`
BinarySearch(impl, list, needle) ==
    IF impl = "bisect" THEN BisectLoop(list, needle, 0, Len(list))
    ELSE binary_search(list, needle)

\* shared.rs:76-81 under the standard library `impl`
KeywordReplace(impl, needle) ==
    LET r == BinarySearch(impl, RUST_KEYWORDS, needle)
    IN  IF r.found THEN RUST_KEYWORDS[r.index] \o "_" ELSE needle

Keywords == { RUST_KEYWORDS[i] : i \in 1..Len(RUST_KEYWORDS) }

\* the strings keyword_replace is called with: every entry of the list, and
\* names that are not keywords
Needles == Keywords \cup {"fora", "user", "typename", "zz", "a", "Node"}

\* shared.rs:76-81
KeywordReplaceCall ==
    /\ kpc = "call"
    /\ replaced' = KeywordReplace(std, searched)
    /\ kpc' = "done"
    /\ UNCHANGED <<searched, std, notKw>>

KeywordInit ==
    /\ DecIdle
    /\ SelIdle
    /\ EnumIdle
    /\ ModIdle
    /\ CacheIdle
    /\ LitIdle
    /\ OpIdle
    /\ searched \in Needles
    /\ std \in StdImpls
    /\ replaced = ""
    /\ kpc = "call"

KeywordNext == KeywordReplaceCall

SpecKeyword == KeywordInit /\ [][KeywordNext]_vars

-----------------------------------------------------------------------------
(***************************************************************************)
(* The calls of generate_module_token_stream on threads the operating      *)
(* system schedules: a thread that can take its next step takes it         *)
(***************************************************************************)

\* the next step of the call of thread t
ThreadStep(t) ==
    /\ \/ QueryLock
       \/ QueryEntry
       \/ QueryRead
       \/ QueryInsert
       \/ QueryUnlock
       \/ SelectBetweenCaches
       \/ SchemaLock
       \/ SchemaEntry
       \/ SchemaRead
       \/ SchemaInsert
       \/ SchemaUnlock
       \/ FinishCall
    /\ tpc'[t] # tpc[t]

\* the files hold what they hold for the whole run: every outcome of a load
\* is there from the start
CacheFairInit ==
    /\ DecIdle
    /\ SelIdle
    /\ EnumIdle
    /\ ModIdle
    /\ LitIdle
    /\ TailIdle
    /\ files \in [QueryPaths \cup SchemaPaths -> {"missing", "bad", "v1"}]
    /\ query_cache = <<>>
    /\ schema_cache = <<>>
    /\ query_lock = ""
    /\ schema_lock = ""
    /\ tpc = [t \in Threads |-> "idle"]
    /\ query_path = [t \in Threads |-> ""]
    /\ schema_path = [t \in Threads |-> ""]
    /\ occupied = [t \in Threads |-> FALSE]
    /\ query_string = [t \in Threads |-> ""]
    /\ schema_string = [t \in Threads |-> ""]
    /\ ncalls = 0
    /\ nedits = 0

CacheFairNext ==
    \/ Call
    \/ QueryLock
    \/ QueryEntry
    \/ QueryRead
    \/ QueryInsert
    \/ QueryUnlock
    \/ SelectBetweenCaches
    \/ SchemaLock
    \/ SchemaEntry
    \/ SchemaRead
    \/ SchemaInsert
    \/ SchemaUnlock
    \/ FinishCall

SpecCacheFair ==
    /\ CacheFairInit
    /\ [][CacheFairNext]_vars
    /\ \A t \in Threads : WF_vars(ThreadStep(t))

-----------------------------------------------------------------------------
(***************************************************************************)
(* Properties of decorate_type                                             *)
(***************************************************************************)

HasDoubleRequired(qs) ==
    \E i \in 1..(Len(qs) - 1) : qs[i] = "Required" /\ qs[i + 1] = "Required"

\* The algorithm of the specification (section 4.2), as a fold: the chain is
\* walked from its last element (index Len) down to index `downto + 1`.
RECURSIVE SpecWalk(_, _, _, _, _)
SpecWalk(qs, i, downto, shape, nn) ==
    IF i <= downto THEN [shape |-> shape, non_null |-> nn]
    ELSE IF qs[i] = "List"
         THEN IF nn THEN SpecWalk(qs, i - 1, downto, <<"Vec">> \o shape, FALSE)
                    ELSE SpecWalk(qs, i - 1, downto, <<"Vec", "Option">> \o shape, FALSE)
         ELSE SpecWalk(qs, i - 1, downto, shape, TRUE)

SpecShape(base, qs) ==
    LET w == SpecWalk(qs, Len(qs), 0, <<base>>, FALSE)
    IN  IF w.non_null THEN w.shape ELSE <<"Option">> \o w.shape

\* C1: on every chain without two consecutive Required qualifiers,
\* decorate_type returns (never panics) exactly the shape of the three-step
\* algorithm of the specification, every intermediate state of its loop is
\* the state of that walk, decorate(T, []) is Option<T> and
\* decorate(T, [Required]) is T.
C1_DecorateFollowsAlgorithm ==
    /\ (~HasDoubleRequired(qualifiers) => dpc # "panic")
    /\ (dpc = "loop" =>
            LET w == SpecWalk(qualifiers, Len(qualifiers), pos, <<ident>>, FALSE)
            IN  qualified = w.shape /\ non_null = w.non_null)
    /\ (dpc = "done" => qualified = SpecShape(ident, qualifiers))
    /\ (dpc = "done" /\ qualifiers = <<>> => qualified = <<"Option", ident>>)
    /\ (dpc = "done" /\ qualifiers = <<"Required">> => qualified = <<ident>>)

\* a call that returned on a chain mixing both qualifiers, lists in both contexts
C1_Witness ==
    /\ dpc = "done"
    /\ qualifiers = <<"List", "Required", "List", "Required">>
    /\ qualified = <<"Option", "Vec", "Vec", ident>>

\* C2 as stated: decorate(T, [Required, List]) is Option<Vec<T>> and
\* decorate(T, [List, Required]) is Vec<Option<T>>.
C2_AsStated ==
    /\ (dpc = "done" /\ qualifiers = <<"Required", "List">>
            => qualified = <<"Option", "Vec", ident>>)
    /\ (dpc = "done" /\ qualifiers = <<"List", "Required">>
            => qualified = <<"Vec", "Option", ident>>)

\* C2 amended: with the chain outermost first, decorate(T, [Required, List])
\* is Vec<Option<T>> (a required list of optional T) and
\* decorate(T, [List, Required]) is Option<Vec<T>> (an optional list of
\* required T), and both calls return.
C2_RequiredListOrder ==
    /\ (qualifiers \in {<<"Required", "List">>, <<"List", "Required">>} => dpc # "panic")
    /\ (dpc = "done" /\ qualifiers = <<"Required", "List">>
            => qualified = <<"Vec", "Option", ident>>)
    /\ (dpc = "done" /\ qualifiers = <<"List", "Required">>
            => qualified = <<"Option", "Vec", ident>>)

C2_Witness ==
    /\ dpc = "done"
    /\ qualifiers = <<"Required", "List">>
    /\ qualified = <<"Vec", "Option", ident>>

\* GraphQL type syntax, outermost constructor first, ending with the named
\* type: [Int!] is ListType(NonNullType(Int)), [Int]! is NonNullType(ListType(Int)).
TypeListOfRequiredInt == <<"ListType", "NonNullType", "Int">>
TypeRequiredListOfInt == <<"NonNullType", "ListType", "Int">>

\* the qualifier chain of a type: one qualifier per constructor, as declared
TypeQualifiers(t) ==
    [i \in 1..(Len(t) - 1) |-> IF t[i] = "ListType" THEN "List" ELSE "Required"]

TypeName(t) == t[Len(t)]

\* GraphQL nullability, by structure from the outside in: a type is nullable
\* unless marked, `!` removes the nullability of what it marks, and a list
\* wraps its element type.
RECURSIVE Nullability(_, _)
Nullability(base, qs) ==
    IF qs = <<>> THEN <<"Option", base>>
    ELSE IF qs[1] = "Required" THEN Tail(Nullability(base, Tail(qs)))
    ELSE <<"Option", "Vec">> \o Nullability(base, Tail(qs))

\* C3: decorate follows GraphQL nullability: the chain of [Int!] gives an
\* optional list of non-optional Int, the chain of [Int]! gives a
\* non-optional list of optional Int, and every returned shape is the
\* nullability reading of its chain.
C3_GraphqlNullability ==
    /\ (dpc = "done" /\ ident = TypeName(TypeListOfRequiredInt)
            /\ qualifiers = TypeQualifiers(TypeListOfRequiredInt)
            => qualified = <<"Option", "Vec", "Int">>)
    /\ (dpc = "done" /\ ident = TypeName(TypeRequiredListOfInt)
            /\ qualifiers = TypeQualifiers(TypeRequiredListOfInt)
            => qualified = <<"Vec", "Option", "Int">>)
    /\ (dpc = "done" => qualified = Nullability(ident, qualifiers))

C3_Witness ==
    /\ dpc = "done"
    /\ ident = "Int"
    /\ qualifiers = TypeQualifiers(TypeRequiredListOfInt)
    /\ qualified = <<"Vec", "Option", "Int">>

\* C4: a chain with two consecutive Required qualifiers, wherever they are,
\* never returns a shape: the loop cannot get past the pair, and the call
\* ends in the panic.
C4_DoubleRequiredPanics ==
    HasDoubleRequired(qualifiers) =>
        /\ dpc \in {"loop", "panic"}
        /\ (dpc = "loop" =>
                \E i \in 1..pos : /\ i < Len(qualifiers)
                                  /\ qualifiers[i] = "Required"
                                  /\ qualifiers[i + 1] = "Required")

\* the panic on a pair surrounded by lists
C4_Witness ==
    /\ dpc = "panic"
    /\ qualifiers = <<"List", "Required", "Required", "List">>

-----------------------------------------------------------------------------
(***************************************************************************)
(* Properties of the field renderers                                       *)
(***************************************************************************)

\* the item the next step of the loop consumes, and the fields it appends
StepItem == selection[next_item + 1]

StepEmitted == SubSeq(field_buffer', Len(field_buffer) + 1, Len(field_buffer'))

\* a step of either renderer on a field the selected type has
FieldStep ==
    /\ spc = "loop"
    /\ next_item < Len(selection)
    /\ next_item' = next_item + 1
    /\ StepItem.kind = "Field"
    /\ HasField(scope, StepItem.name)

\* C5, as stated: for every selected field and every strategy, a deprecated
\* field yields no emitted field under Deny, one emitted field with a
\* deprecation marker under Warn and one without a marker under Allow; a
\* field that is not deprecated yields one emitted field without a marker.
\* render_object_field breaks it for the Go target under Warn.
C5_AsStated ==
    [][FieldStep =>
        LET f == FindField(scope, StepItem.name)
        IN  CASE is_deprecated(f) /\ strategy = "Deny" -> StepEmitted = <<>>
              [] is_deprecated(f) /\ strategy = "Warn" ->
                    Len(StepEmitted) = 1 /\ StepEmitted[1].deprecated
              [] OTHER ->
                    Len(StepEmitted) = 1 /\ ~StepEmitted[1].deprecated]_vars

\* a step of either renderer on a spread of a fragment of the document
SpreadStep ==
    /\ spc = "loop"
    /\ next_item < Len(selection)
    /\ next_item' = next_item + 1
    /\ StepItem.kind = "FragmentSpread"
    /\ StepItem.name \in FragmentNames

\* C10, as stated: the field emitted for a fragment spread has its type
\* wrapped in one level of indirection exactly when the fragment is
\* recursive.  render_selection breaks it: it never wraps the type.
C10_AsStated ==
    [][SpreadStep =>
        /\ Len(StepEmitted) = 1
        /\ Len(StepEmitted[1].type) = 2 <=> is_recursive(StepItem.name)]_vars

-----------------------------------------------------------------------------
(***************************************************************************)
(* Properties of the selections on a union                                 *)
(***************************************************************************)

\* the union selected on, the selection on it, and the variants of the
\* tagged union generated for it
UnionOf == IF op = "render_selection" THEN "SearchResult" ELSE scope

UnionSelection == IF op = "render_selection" THEN selection[1].sub ELSE selection

UnionEnumVariants ==
    IF op = "render_selection"
    THEN response_type_buffer[Len(response_type_buffer)].on_enum.variants
    ELSE variants_buffer

Returned == spc \in {"ok", "err", "panic"}

\* C6, as stated: when generation accepts a selection on a union, the
\* tagged union has exactly one variant for each declared member of the
\* union and no other.  render_selection breaks it: it emits a variant for
\* each inline fragment and none for the members not selected.
C6_AsStated ==
    spc = "ok" =>
        /\ Len(UnionEnumVariants) = Cardinality(UnionVariants[UnionOf])
        /\ \A m \in UnionVariants[UnionOf] :
              \E i \in 1..Len(UnionEnumVariants) : UnionEnumVariants[i].name = m

\* the names of the schema that union_variants can expand
IsCompositeType(n) ==
    n \in DOMAIN TypeKind /\ TypeKind[n] \in {"Object", "Interface", "Union"}

UnknownTargets == {k \in SelectedVariantKeys(selection) : ~IsCompositeType(k)}

C8_MissingTypenameFails ==
    (Returned /\ ~extract_typename(UnionSelection)) =>
        /\ err = "MissingTypename"
        /\ spc = "err"
        /\ response_type_buffer = <<>>
        /\ variants_buffer = <<>>

\* C8: response_for_selection has failed so on a selection of three inline
\* fragments on two members and no __typename
C8_Witness ==
    /\ op = "response_for_selection"
    /\ Len(selection) = 3
    /\ SelectedVariantKeys(selection) = {"Organization", "User"}
    /\ ~extract_typename(selection)
    /\ spc = "err"
    /\ err = "MissingTypename"

-----------------------------------------------------------------------------
(***************************************************************************)
(* Properties of the generated enums                                       *)
(***************************************************************************)

Declared(s) == \E i \in 1..Len(enum_values) : enum_values[i] = s

-----------------------------------------------------------------------------
(***************************************************************************)
(* Properties of generate_module_token_stream                              *)
(***************************************************************************)

\* the names of the operations the document defines, in document order
DefinedNames == [i \in 1..Len(document) |-> document[i].name]

\* the configured name is the name of no operation of the document
NoOperationNamed ==
    /\ operation_name # ""
    /\ \A i \in 1..Len(document) : document[i].name # operation_name

\* the configured name is the normalized name of no operation of the document
NoOperationNormalizedTo ==
    /\ operation_name # ""
    /\ \A i \in 1..Len(document) :
           NormOperation(normalization, document[i].name) # operation_name

BatchOperation(k) == document[operations[k]]

\* the module of the k-th operation of the batch is among the modules
ModuleProduced(k) ==
    \E j \in 1..Len(modules) : modules[j].name = SnakeCase(BatchOperation(k).name)

\* the call generates all operations of the document
WholeDocumentBatch == mode = "Cli" /\ operation_name = "" /\ Len(operations) >= 2

\* C12 as stated: when a call that generates several operations has ended,
\* with or without a fatal error of one of them, the module of every
\* operation of the batch whose own generation does not fail is produced.
C12_AsStated ==
    (WholeDocumentBatch /\ gpc \in {"ok", "err"}) =>
        \A k \in 1..Len(operations) :
            build_impls(target_lang, BatchOperation(k), strategy) = "" => ModuleProduced(k)

\* C12: when a call generates several operations and the generation of one
\* of them hits a fatal error, the whole call ends with that error at the
\* first failing operation and no module of the batch is produced, those of
\* the operations generated before it included.
C12_FailureAbortsCall ==
    (WholeDocumentBatch /\ gpc = "err") =>
        /\ modules = <<>>
        /\ next_op < Len(operations)
        /\ gerr.kind = build_impls(target_lang, BatchOperation(next_op + 1), strategy)
        /\ gerr.kind # ""
        /\ \A k \in 1..next_op :
               build_impls(target_lang, BatchOperation(k), strategy) = ""

\* C12 witness: the second or third operation of a batch has failed after an
\* earlier one was generated, and the call has returned the error
C12_Witness ==
    /\ WholeDocumentBatch
    /\ gpc = "err"
    /\ next_op >= 1
    /\ next_op + 1 < Len(operations)

\* the definitions of the schema whose flag is set
Required(flags) == { t \in DOMAIN flags : flags[t] }

\* what the marks of one call amount to, whatever the order they are applied
\* in: the enums the variables of any operation of the document name, and
\* what the generated operations use
ExpectedRequired ==
    UNION { VariableEnums(document[i]) : i \in 1..Len(document) }
      \cup UNION { UsedDefinitions(BatchOperation(k)) : k \in 1..Len(operations) }

\* C15: no step changes the required flag of a schema definition from true
\* to false, marking a definition that is already required leaves it
\* required, and when the call returns the required definitions are those
\* that the set of marks names, whatever the order of the operations.
C15_RequiredWriteOnce ==
    [][ /\ DOMAIN is_required' = DOMAIN is_required
        /\ \A t \in DOMAIN is_required : is_required[t] => is_required'[t]
        /\ gpc' = "ok" => Required(is_required') = ExpectedRequired'
      ]_vars

\* C15 witness: a call has generated two operations; the enum Tag was marked
\* for the variable of B and marked again when B was generated
C15_Witness ==
    /\ gpc = "ok"
    /\ Len(operations) >= 2
    /\ \E k \in 1..Len(operations) : BatchOperation(k).name = "B"
    /\ is_required["Tag"]
    /\ is_required["Range"]
    /\ ~is_required["Color"]

\* the scalar, enum, input and fragment definitions a module emits, the
\* aliases of the built-in scalars left aside
Emitted(module) ==
    module.defs.scalars \cup module.defs.enums \cup module.defs.inputs
        \cup module.defs.fragments

\* what is transitively reachable from the variables and the selection of
\* an operation
Reachable(operation) ==
    UsedDefinitions(operation) \cup UsedTypes(operation).fragments

-----------------------------------------------------------------------------
(***************************************************************************)
(* Properties of the Variables part                                        *)
(***************************************************************************)

HasDefault(variable) == variable.default # NoDefault

\* the variables with a default value among those the iterator has yielded
Defaulted == SelectSeq(SubSeq(variables, 1, next_var), HasDefault)

Wrapped(lit) == lit.kind \in {"Some", "*"}

Unwrap(lit) == IF Wrapped(lit) THEN lit.items[1] ELSE lit

\* the literal compiled for a value is wrapped exactly when its slot is
\* nullable, and so is the literal of every element and of every field
RECURSIVE WrappedAsSlot(_, _, _, _)
WrappedAsSlot(lit, val, type_name, quals) ==
    /\ Wrapped(lit) <=> IsOptional(quals)
    /\ CASE val.kind = "List" /\ Unwrap(lit).kind = "vec" ->
               \A i \in 1..Len(val.items) :
                   WrappedAsSlot(Unwrap(lit).items[i], val.items[i], type_name,
                                 ElementQuals(quals))
         [] val.kind = "Object" /\ Unwrap(lit).kind = "struct" ->
               \A i \in 1..Len(Unwrap(lit).items) :
                   \A f \in { InputFields(type_name)[j] : j \in 1..Len(InputFields(type_name)) } :
                       (f.name = Unwrap(lit).items[i].v /\ HasEntry(val.items, f.name))
                           => WrappedAsSlot(Unwrap(lit).items[i].items[1],
                                            GetEntry(val.items, f.name), f.type, f.quals)
         [] OTHER -> TRUE

\* C17 as stated: every literal the default-value compiler has compiled, for
\* a variable's default, an element of a list literal or a field of an
\* input-object literal, is wrapped in the present wrapper exactly when its
\* target slot is nullable.
C17_AsStated ==
    generator = "expand_variables" =>
        \A k \in 1..Len(constructors) :
            WrappedAsSlot(constructors[k].body, Defaulted[k].default,
                          Defaulted[k].type, Defaulted[k].quals)

\* the constructor emitted for a variable
ConstructorsOf(variable) ==
    { k \in 1..Len(constructors) :
        constructors[k].name \in {"default_" \o variable.name, "Default" \o variable.name} }

\* a struct literal with one entry per declared field of the input type, in
\* the order of the fields: the compiled value of the field where the
\* literal gives one, the absent value where it gives none
RECURSIVE ObjectCompiled(_, _, _, _)
ObjectCompiled(lang, lit, object, type_name) ==
    /\ lit.kind = "struct"
    /\ lit.v = type_name
    /\ Len(lit.items) = Len(InputFields(type_name))
    /\ \A i \in 1..Len(InputFields(type_name)) :
          LET f == InputFields(type_name)[i]
          IN  /\ lit.items[i].kind = "field"
              /\ lit.items[i].v = f.name
              /\ Len(lit.items[i].items) = 1
              /\ IF ~HasEntry(object, f.name)
                 THEN lit.items[i].items[1] = Absent(lang)
                 ELSE /\ lit.items[i].items[1] =
                            graphql_parser_value_to_literal(lang, GetEntry(object, f.name),
                                f.type, f.quals, IsOptional(f.quals))
                      /\ GetEntry(object, f.name).kind = "Object" =>
                            ObjectCompiled(lang, Unwrap(lit.items[i].items[1]),
                                           GetEntry(object, f.name).items, f.type)

C19_AsStated ==
    vpc = "done" =>
        /\ \A i \in 1..Len(variables) :
              Cardinality({ k \in 1..Len(constructors) :
                              constructors[k].name = "default_" \o variables[i].name })
                 = IF HasDefault(variables[i]) THEN 1 ELSE 0
        /\ Len(constructors) = Len(SelectSeq(variables, HasDefault))

-----------------------------------------------------------------------------
(***************************************************************************)
(* Properties of the caches                                                *)
(***************************************************************************)

\* the positions between acquiring and releasing the lock of each cache;
\* the lookup is made at *_entry and the insertion at *_insert
QuerySection == {"query_entry", "query_read", "query_insert", "query_unlock"}

SchemaSection == {"schema_entry", "schema_read", "schema_insert", "schema_unlock"}

InSection(section) == { t \in Threads : tpc[t] \in section }

\* C13: for each of the two caches, under any interleaving of concurrent
\* calls, at most one thread is between acquiring and releasing the cache's
\* lock, and a thread that looks the map up or inserts into it holds the
\* lock.
C13_CachesSerialized ==
    /\ Cardinality(InSection(QuerySection)) <= 1
    /\ Cardinality(InSection(SchemaSection)) <= 1
    /\ \A t \in Threads :
          /\ tpc[t] \in QuerySection => query_lock = t
          /\ tpc[t] \in SchemaSection => schema_lock = t
    /\ query_lock # "" => tpc[query_lock] \in QuerySection
    /\ schema_lock # "" => tpc[schema_lock] \in SchemaSection

\* C13 witness: one thread is about to insert into the query cache while the
\* other waits for the lock of the same cache
C13_Witness ==
    \E t, u \in Threads :
        /\ t # u
        /\ tpc[t] = "query_insert"
        /\ tpc[u] = "query_lock"
        /\ query_lock = t

\* no entry of the cache is removed or replaced by a step
EntriesKept(cache, cache_after) ==
    \A p \in DOMAIN cache : p \in DOMAIN cache_after /\ cache_after[p] = cache[p]

\* C14: once a cache holds an entry for a path, no step removes or replaces
\* it, and every lookup of the path returns the entry's value, the one first
\* inserted, whatever the file holds by then.
C14_EntriesNeverReplaced ==
    [][ /\ EntriesKept(query_cache, query_cache')
        /\ EntriesKept(schema_cache, schema_cache')
        /\ \A t \in Threads :
              /\ (tpc[t] = "query_entry" /\ query_path[t] \in DOMAIN query_cache
                    /\ tpc'[t] # "query_entry")
                  => (occupied'[t] /\ query_string'[t] = query_cache[query_path[t]])
              /\ (tpc[t] = "schema_entry" /\ schema_path[t] \in DOMAIN schema_cache
                    /\ tpc'[t] # "schema_entry")
                  => (occupied'[t] /\ schema_string'[t] = schema_cache[schema_path[t]])
      ]_vars

\* C14 witness: a lookup has returned the entry of a path whose file holds
\* something else by now
C14_Witness ==
    \E t \in Threads :
        /\ tpc[t] = "query_unlock"
        /\ occupied[t]
        /\ query_string[t] = query_cache[query_path[t]]
        /\ files[query_path[t]] # query_string[t]

-----------------------------------------------------------------------------
(***************************************************************************)
(* Properties of the names of nested selections                            *)
(***************************************************************************)

\* C20 as stated: within one operation, any two nested selections reached by
\* different field paths have different generated struct names.
C20_AsStated ==
    op = "field_impls_for_selection" =>
        \A i, j \in 1..Len(response_type_buffer) :
            response_type_buffer[i].path # response_type_buffer[j].path
                => response_type_buffer[i].name # response_type_buffer[j].name

-----------------------------------------------------------------------------
(***************************************************************************)
(* Properties of Operation::from                                           *)
(***************************************************************************)

\* the names of the variables, in order
VariableNames(vs) == [i \in 1..Len(vs) |-> vs[i].name]

Fatal(def) == def.kind = "SelectionSet" \/ def.name = ""

\* C21: building an Operation from a parsed definition fails fatally when the
\* query, mutation or subscription has no name and when the definition is a
\* bare selection set; every named query, mutation or subscription yields an
\* Operation with that name, the matching kind and its variables in declared
\* order.
C21_OperationFromDefinition ==
    /\ opc # "idle" /\ Fatal(definition) => opc \in {"match", "panic"}
    /\ opc = "panic" => Fatal(definition) /\ built = NoOperation
    /\ opc = "done" =>
          /\ ~Fatal(definition)
          /\ built.name = definition.name
          /\ built.operation_type = definition.kind
          /\ VariableNames(built.variables)
                = VariableNames(definition.variable_definitions)
          /\ \A i \in 1..Len(built.variables) :
                built.variables[i]
                    = VariableFrom(definition.variable_definitions[i])

\* C21 witness: a named mutation with two variables has been converted
C21_Witness ==
    /\ opc = "done"
    /\ definition.kind = "Mutation"
    /\ Len(definition.variable_definitions) = 2
    /\ built.variables[1].name = "ids"
    /\ built.variables[1].quals = <<"Required", "List">>

-----------------------------------------------------------------------------
(***************************************************************************)
(* Properties of the struct emitted for a selection on an object           *)
(***************************************************************************)

HasPlainField(sel) == \E i \in 1..Len(sel) : sel[i].kind = "Field"

HasInlineFragment(sel) == \E i \in 1..Len(sel) : sel[i].kind = "InlineFragment"

\* every field is one the type has and every spread names a fragment of the
\* document
Resolvable(sel, type_name) ==
    \A i \in 1..Len(sel) :
        /\ sel[i].kind = "Field" => HasField(type_name, sel[i].name)
        /\ sel[i].kind = "FragmentSpread" => sel[i].name \in FragmentNames

\* the struct the caller emits from what the renderer returned
EmittedStruct == render_object_like_struct(prefix, field_buffer, variants_buffer)

\* C22, as stated: for a selection on an object that mixes plain fields with
\* inline fragments, generation succeeds and the emitted struct holds one
\* additional flattened field referring to its companion tagged union; a
\* struct whose selection has no inline fragment has neither the field nor
\* the union.  response_fields_for_selection breaks it: it fails on the
\* inline fragment.
C22_AsStated ==
    spc \in {"ok", "err"} /\ Resolvable(selection, scope) =>
        /\ HasPlainField(selection) /\ HasInlineFragment(selection) =>
              /\ spc = "ok"
              /\ EmittedStruct.on_field
              /\ EmittedStruct.on_enum # NoEnum
        /\ spc = "ok" /\ ~HasInlineFragment(selection) =>
              /\ ~EmittedStruct.on_field
              /\ EmittedStruct.on_enum = NoEnum


\* the structs of the output that carry the name n
StructsNamed(n) ==
    { i \in 1..Len(response_type_buffer) : response_type_buffer[i].name = n }

\* the variants of the generated union that wrap the struct of an object or
\* of an interface
StructVariants ==
    { i \in 1..Len(UnionEnumVariants) :
        /\ UnionEnumVariants[i].struct # ""
        /\ TypeKind[UnionEnumVariants[i].name] \in {"Object", "Interface"} }

\* C23, as stated: the fragments of one selection that target the same
\* member are grouped, so that the generated union has one variant for the
\* member, whose struct holds their fields without duplicates (all of them
\* unless the strategy is Deny), and no two variants carry the same member
\* name.  render_selection breaks it: it
\* emits one variant and one struct for each inline fragment.
C23_AsStated ==
    spc = "ok" =>
        /\ \A i, j \in 1..Len(UnionEnumVariants) :
              i # j => UnionEnumVariants[i].name # UnionEnumVariants[j].name
        /\ \A i \in StructVariants :
              LET v == UnionEnumVariants[i]
              IN  /\ Cardinality(StructsNamed(v.struct)) = 1
                  /\ strategy # "Deny" =>
                        \A s \in StructsNamed(v.struct) :
                            Len(response_type_buffer[s].fields)
                                = Len(SelectedVariantFields(UnionSelection, v.name))

-----------------------------------------------------------------------------
(***************************************************************************)
(* Properties of keyword_replace                                           *)
(***************************************************************************)

\* C24, as stated: keyword_replace(s) returns s with "_" appended for every
\* string s that is an entry of the RUST_KEYWORDS list, and s unchanged for
\* every other string.  The binary search of the unsorted list breaks it: it
\* misses "if let" under both loops, "extern crate" under the halving loop
\* and "extern" under the bisection.
C24_AsStated ==
    kpc = "done" =>
        replaced = IF searched \in Keywords THEN searched \o "_" ELSE searched

-----------------------------------------------------------------------------
(***************************************************************************)
(* Properties of deprecated fields with a sub-selection                    *)
(***************************************************************************)

\* the response keys of the deprecated fields the selection selects
DeprecatedKeys ==
    { ResponseKey(selection[i]) :
        i \in { j \in 1..Len(selection) :
                  /\ selection[j].kind = "Field"
                  /\ HasField(scope, selection[j].name)
                  /\ is_deprecated(FindField(scope, selection[j].name)) } }

\* C25, as stated: under the Deny strategy a deprecated field that has a
\* sub-selection is dropped entirely, so that no definition generated from
\* its sub-selection is in the output.  field_impls_for_selection breaks it:
\* it expands the sub-selection of every field, whatever the strategy.
C25_AsStated ==
    op = "field_impls_for_selection" /\ strategy = "Deny" =>
        \A i \in 1..Len(response_type_buffer) :
            response_type_buffer[i].path[1] \notin DeprecatedKeys

-----------------------------------------------------------------------------
(***************************************************************************)
(* Properties of the order of the fields of an emitted struct              *)
(***************************************************************************)

\* the Deny strategy drops the field the item selects
DenyDropped(item) ==
    /\ strategy = "Deny"
    /\ item.kind = "Field"
    /\ HasField(scope, item.name)
    /\ is_deprecated(FindField(scope, item.name))

\* the item yields a field of its own
YieldsField(item) == item.kind # "InlineFragment" /\ ~DenyDropped(item)

\* the position of the first inline fragment of the selection, 0 for none
FirstInlineFragment(sel) ==
    IF HasInlineFragment(sel)
    THEN CHOOSE i \in 1..Len(sel) :
             /\ sel[i].kind = "InlineFragment"
             /\ \A j \in 1..(i - 1) : sel[j].kind # "InlineFragment"
    ELSE 0

\* the positions, in increasing order from i on, of the items that yield a
\* field of their own or are the item at position `also`
RECURSIVE ProducersFrom(_, _, _)
ProducersFrom(sel, i, also) ==
    IF i > Len(sel) THEN <<>>
    ELSE (IF YieldsField(sel[i]) \/ i = also THEN <<i>> ELSE <<>>)
         \o ProducersFrom(sel, i + 1, also)

\* the emitted field is the one the item produces
ProducedBy(field, item) ==
    CASE item.kind = "InlineFragment" -> field = OnField(EmittedStruct.on_enum.name)
      [] item.kind = "FragmentSpread" ->
            field.flatten /\ field.type[Len(field.type)] = item.name
      [] OTHER ->
            /\ ~field.flatten
            /\ \/ field.rename = ResponseKey(item)
               \/ field.rename = "" /\ field.name = ResponseKey(item)

\* the fields of the emitted struct are produced, one each and in this
\* order, by the items at the positions `producers`
FieldsProducedBy(producers) ==
    /\ Len(StructFields(EmittedStruct)) = Len(producers)
    /\ \A k \in 1..Len(producers) :
          ProducedBy(StructFields(EmittedStruct)[k], selection[producers[k]])

\* C26, as stated: the fields of the emitted struct are in the relative order
\* of the selection items that produced them, the flattened field standing
\* for the inline fragments included, and only the fields dropped by Deny
\* are missing.  render_object_like_struct breaks it: the flattened field is
\* the last one even when a field follows the inline fragment.
C26_AsStated ==
    spc = "ok" =>
        FieldsProducedBy(ProducersFrom(selection, 1, FirstInlineFragment(selection)))

\* C26: the fields of the emitted struct that come from fields, __typename
\* and fragment spreads are in the relative order of the selection items
\* that produced them, only the fields dropped by Deny are missing, and the
\* one flattened field standing for the inline fragments is the last field
\* of the struct wherever the inline fragments are in the selection.
C26_FieldOrderOnLast ==
    spc = "ok" =>
        FieldsProducedBy(
            ProducersFrom(selection, 1, 0)
                \o (IF HasInlineFragment(selection)
                    THEN << FirstInlineFragment(selection) >> ELSE <<>>))

\* C26 witness: render_selection has returned from a selection whose inline
\* fragment precedes a field that is kept
C26_Witness ==
    /\ spc = "ok"
    /\ op = "render_selection"
    /\ Len(selection) = 2
    /\ selection[1].kind = "InlineFragment"
    /\ selection[2].kind = "Field"
    /\ YieldsField(selection[2])
    /\ Len(StructFields(EmittedStruct)) = 2


-----------------------------------------------------------------------------
(***************************************************************************)
(* Properties of the loads into the caches and of the two locks            *)
(***************************************************************************)

\* thread t is loading the file of its query path: between the Vacant arm of
\* the match and the end of the insertion
LoadsQuery(t) == tpc[t] \in {"query_read", "query_insert"}

LoadsSchema(t) == tpc[t] \in {"schema_read", "schema_insert"}

Unloadable(content) == content \in {"missing", "bad"}

\* thread t takes its step from the position pc
StepsFrom(t, pc) == tpc[t] = pc /\ tpc'[t] # pc

\* C28: when reading the file or parsing the query fails on a cache miss, the
\* call returns the error, no entry for the path is inserted, the cache map
\* is left as it was and the lock is released; a later call for the same
\* path, finding no entry, performs the load again.
C28_FailedLoadLeavesNoTrace ==
    [][\A t \in Threads :
         /\ StepsFrom(t, "query_read") /\ Unloadable(files[query_path[t]]) =>
               /\ tpc'[t] = "idle"
               /\ query_cache' = query_cache
               /\ schema_cache' = schema_cache
               /\ query_lock = t /\ query_lock' = ""
         /\ StepsFrom(t, "schema_read") /\ files[schema_path[t]] = "missing" =>
               /\ tpc'[t] = "idle"
               /\ query_cache' = query_cache
               /\ schema_cache' = schema_cache
               /\ schema_lock = t /\ schema_lock' = ""
         /\ StepsFrom(t, "query_entry") /\ query_path[t] \notin DOMAIN query_cache
               => tpc'[t] = "query_read"
         /\ StepsFrom(t, "schema_entry") /\ schema_path[t] \notin DOMAIN schema_cache
               => tpc'[t] = "schema_read"]_vars

\* C28 witness: the load of a.graphql has failed in a first call, which has
\* returned, and a second call for the same path performs the load again
C28_Witness ==
    \E t, u \in Threads :
        /\ t # u
        /\ nedits = 0
        /\ files["a.graphql"] = "missing"
        /\ files["b.graphql"] = "v1"
        /\ ncalls = 2
        /\ tpc[u] = "idle"
        /\ tpc[t] = "query_read"
        /\ query_path[t] = "a.graphql"
        /\ query_cache = <<>>
        /\ query_lock = t


\* thread t waits in Mutex::lock
Waits(t) == tpc[t] \in {"query_lock", "schema_lock"}

\* C29: no call ever holds the lock of the query cache and the lock of the
\* schema cache at the same time: the first is released before the second is
\* requested and neither is held during generation; a call that holds a lock
\* never waits for one, so concurrent calls cannot deadlock on the two
\* locks, and every call that acquires a lock eventually releases it.
C29_LocksNeverNested ==
    /\ [](\A t \in Threads :
            /\ ~(query_lock = t /\ schema_lock = t)
            /\ query_lock = t => tpc[t] \in QuerySection
            /\ schema_lock = t => tpc[t] \in SchemaSection
            /\ (query_lock = t \/ schema_lock = t) => ~Waits(t))
    /\ (query_lock # "") ~> (query_lock = "")
    /\ (schema_lock # "") ~> (schema_lock = "")

\* C29 witness: one call holds the lock of the schema cache while another
\* holds the lock of the query cache and a file is being loaded
C29_Witness ==
    \E t, u \in Threads :
        /\ schema_lock = t
        /\ query_lock = u
        /\ tpc[t] = "schema_insert"
        /\ tpc[u] = "query_read"

-----------------------------------------------------------------------------
(***************************************************************************)
(* Properties of the shape decorate_type returns                           *)
(***************************************************************************)

\* how many elements of the sequence s equal x
Occurrences(x, s) == Cardinality({i \in DOMAIN s : s[i] = x})

\* an Option that directly wraps another Option
OptionWrapsOption(q) ==
    \E i \in 1..(Len(q) - 1) : q[i] = "Option" /\ q[i + 1] = "Option"

\* the chain's outermost qualifier is Required
BeginsWithRequired(qs) == qs # <<>> /\ qs[1] = "Required"

\* C30: whenever decorate_type returns, the result has one Vec layer per
\* List qualifier of the chain, no Option directly around another
\* Option, and an outermost Option exactly when the chain does not
\* begin, at its outermost position, with Required.
C30_ReturnedShape ==
    dpc = "done" =>
        /\ Occurrences("Vec", qualified) = Occurrences("List", qualifiers)
        /\ ~OptionWrapsOption(qualified)
        /\ (qualified[1] = "Option") <=> ~BeginsWithRequired(qualifiers)

\* C30 witness: a call returned for a chain with a nullable list inside a
\* required list, [[T]]!, and for it the result is Vec<Option<Vec<Option<T>>>>.
C30_Witness ==
    /\ dpc = "done"
    /\ qualifiers = <<"Required", "List", "List">>
    /\ qualified = <<"Vec", "Option", "Vec", "Option", ident>>

=============================================================================
